---- MODULE Spec2Model ----
(***************************************************************************)
(* Model of the OP.GG player analysis engine of iSeeUAll                   *)
(* (src/src/lib/opgg-api.ts) and of the lobby loop that drives it          *)
(* (src/src/lib/components/LobbyAnalysis.svelte).                          *)
(*                                                                         *)
(* Numbers.  JavaScript numbers are IEEE-754 doubles.  Counters, spell     *)
(* ids, deaths, scores are small integers and are modelled as integers.    *)
(* Ratios (KDA, variances, win rates) are modelled as exact fractions      *)
(* [num, den]; a win rate additionally carries the sign of the rounding    *)
(* error of its double evaluation (see calculateWinRate).                  *)
(***************************************************************************)
EXTENDS Integers, Sequences, FiniteSets, TLC

VARIABLES
    \* ---- one player's analysis (analyzePlayer's data path) ----
    apc,              \* position inside analyzePlayer
    callerRegion,     \* the region argument the caller passes
    countParam,       \* the count argument getMatchHistory is called with
    responses,        \* what the transport answers to the 4 history encodings
    playerStats,      \* result of searchSummoner
    recentMatches,    \* result of getMatchHistory
    boostedFlags,     \* PlayerAnalysis.boostedFlags
    performanceFlags, \* PlayerAnalysis.performanceFlags
    riskScore,        \* PlayerAnalysis.riskScore
    \* ---- the Transport/Cache layer (makeRequest) ----
    clock,            \* Date.now(), in ms
    lastRequestTime,  \* OpggApiClient.lastRequestTime
    cache,            \* OpggApiClient.cache: key -> entry
    calls,            \* the makeRequest calls: position and locals of each
    invocations,      \* the transport invocations made so far, in order
    \* ---- the lobby loop and the analyzePlayer calls it awaits ----
    driver,           \* which loop runs: analyzeLobbyPlayers or the component
    lpc,              \* position of the loop
    playerIdx,        \* index of the player the loop is at
    stage,            \* per player: how far analyzePlayer has got
    task,             \* per player: the transport call in flight for it
    unresponsive,     \* per player: the transport never answers for it
    gap,              \* per player: ms the loop waited between the previous player's end and its start
    outcome,          \* per player: how the analyzePlayer promise settled
    called,           \* per player: a transport call was made for it
    logs,             \* per player: the progress events, in order
    results,          \* the results collected by the loop, in order
    \* ---- one pipeline step (searchSummoner, getMatchHistory), call by call ----
    sop,              \* which of the two operations runs
    spc,              \* position inside the operation
    round,            \* how many times the operation was started for the identity
    attempts,         \* this run's transport calls: encoding, answer, parsers tried
    answered,         \* encodings that got a transport response in earlier runs
    ret,              \* what the operation returned
    \* ---- one LobbyAnalysis component (LobbyAnalysis.svelte) ----
    cpc,              \* lifecycle of the component
    players,          \* the players prop
    autoAnalyze,      \* the autoAnalyze prop
    isRunning,        \* the overlap guard
    isLoading,        \* the loading indicator
    lastAttemptedKey, \* key of the lobby the reactive block last started
    loops,            \* the analyzePlayers invocations that entered their loop, ended ones included
    \* ---- the Ivern auto-select of the main view (reveal.svelte, lcu.ts) ----
    config,           \* the configuration: the stored one until the view has loaded it
    ivernEnabled,     \* the auto-select switch
    autoLock,         \* lock in (true) or hover only (false)
    monitors,         \* the intervals started by startIvernAutoSelect
    resuming,         \* toggle handlers waiting for updateConfig
    sent,             \* the pick / hover requests sent to the game client
    uiEvents          \* how many prop changes, clicks and toggles happened

analysisVars == <<apc, callerRegion, countParam, responses, playerStats,
                  recentMatches,
                  boostedFlags, performanceFlags, riskScore>>

requestVars == <<clock, lastRequestTime, cache, calls, invocations>>

lobbyVars == <<driver, lpc, playerIdx, stage, task, unresponsive, gap, outcome,
               called, logs, results>>

stepVars == <<sop, spc, round, attempts, answered, ret>>

componentVars == <<cpc, players, autoAnalyze, isRunning, isLoading,
                   lastAttemptedKey, loops>>

ivernVars == <<config, ivernEnabled, autoLock, monitors, resuming, sent>>

uiVars == <<componentVars, ivernVars, uiEvents>>

vars == <<analysisVars, requestVars, lobbyVars, stepVars, uiVars>>

(***************************************************************************)
(* Bounds of the model                                                     *)
(***************************************************************************)
MaxFlashCount == 11   \* flashChangeCount values 0..MaxFlashCount (and 69)
MaxShort == 3         \* every upstream table of at most MaxShort rows
MaxHist == 70         \* longest upstream table with a periodic flash slot
MaxWinHist == 30      \* longest upstream table of the win-pattern family
MaxPerfHist == 5      \* longest history of the performance-threshold family
MaxEntries == 2       \* entries of an upstream answer given to the match parsers alone
MaxCalls == 3         \* makeRequest calls issued in one run
MaxRounds == 2        \* runs of one pipeline step for the same identity
NumPlayers == 5       \* identities in the lobby
MaxSlow == 1          \* players whose transport answers, but after the 15 s timer
MaxSmallTicks == 3    \* the clock runs this many half-delays past its jumps
MaxUiEvents == 3      \* prop changes, clicks and toggles the user and the parent view make

(***************************************************************************)
(* Generic helpers                                                         *)
(***************************************************************************)
Min(a, b) == IF a < b THEN a ELSE b

Max(a, b) == IF a > b THEN a ELSE b

\* a slice that keeps the whole array
Slice_whole(s, from, to) == s

\* Array.prototype.slice(from, to) with 0-based, end-exclusive indices
Slice(s, from, to) ==
    LET lo == Min(from, Len(s))
        hi == Min(to, Len(s))
    IN  IF hi <= lo THEN <<>> ELSE SubSeq(s, lo + 1, hi)

RECURSIVE SeqSum(_)
SeqSum(s) == IF s = <<>> THEN 0 ELSE Head(s) + SeqSum(Tail(s))

RECURSIVE Gcd(_, _)
Gcd(a, b) == IF b = 0 THEN a ELSE Gcd(b, a % b)

Lcm(a, b) == (a * b) \div Gcd(a, b)

RECURSIVE LcmSeq(_)
LcmSeq(s) == IF s = <<>> THEN 1 ELSE Lcm(Head(s), LcmSeq(Tail(s)))

\* comparisons of an exact fraction with an integer threshold
FracGt(r, t) == r.num > t * r.den

FracLt(r, t) == r.num < t * r.den

(***************************************************************************)
(* Strings: the identities that occur in the model and their case folding  *)
(***************************************************************************)
toLowerCase(s) ==
    CASE s \in {"Faker", "faker", "FAKER"} -> "faker"
      [] s \in {"Other", "other"} -> "other"
      [] s \in {"KR1", "kr1"} -> "kr1"
      [] s \in {"EUW", "Euw", "euw"} -> "euw"
      [] s \in {"KR", "kr"} -> "kr"
      [] s \in {"NA", "na"} -> "na"
      [] s \in {"NA1", "na1"} -> "na1"
      [] s \in {"EUW1", "euw1"} -> "euw1"
      [] s \in {"LA2", "la2"} -> "la2"
      [] s \in {"XX", "xx"} -> "xx"
      [] OTHER -> s

toUpperCase(s) ==
    CASE s \in {"Faker", "faker", "FAKER"} -> "FAKER"
      [] s \in {"Other", "other"} -> "OTHER"
      [] s \in {"KR1", "kr1"} -> "KR1"
      [] s \in {"EUW", "Euw", "euw"} -> "EUW"
      [] s \in {"KR", "kr"} -> "KR"
      [] s \in {"NA", "na"} -> "NA"
      [] s \in {"NA1", "na1"} -> "NA1"
      [] s \in {"EUW1", "euw1"} -> "EUW1"
      [] s \in {"LA2", "la2"} -> "LA2"
      [] s \in {"XX", "xx"} -> "XX"
      [] s \in {"GOLD", "Gold", "gold"} -> "GOLD"
      [] s \in {"MASTER", "Master", "master"} -> "MASTER"
      [] s \in {"NONE", "None", "none"} -> "NONE"
      [] s \in {"WOOD", "wood"} -> "WOOD"
      [] s \in {"WIN", "Win", "win"} -> "WIN"
      [] OTHER -> s

(***************************************************************************)
(* Utility functions of OpggApiClient                                      *)
(***************************************************************************)
\* a ratio that counts one death more than there were
calculateKDA_extraDeath(kills, deaths, assists) ==
    [num |-> kills + assists, den |-> deaths + 1]

\* lines 826-828
calculateKDA(kills, deaths, assists) ==
    IF deaths = 0 THEN [num |-> kills + assists, den |-> 1]
                  ELSE [num |-> kills + assists, den |-> deaths]

\* Pairs <<wins, games>> (games <= 30) for which the double (wins/games)*100
\* is one ulp ABOVE the exact percentage although the exact percentage is an
\* integer: 11/20*100 = 55.00000000000001, 7/25*100 = 28.000000000000004,
\* 14/25*100 = 56.00000000000001.  For every other pair with an integral
\* exact percentage the double is exact.
RoundsAbove(wins, games) ==
    <<wins, games>> \in {<<11, 20>>, <<7, 25>>, <<14, 25>>}

\* a win rate that takes an empty window for an even record
calculateWinRate_emptyIsEven(matches) ==
    IF Len(matches) = 0 THEN [num |-> 50, den |-> 1, err |-> 0]
    ELSE LET wins == Cardinality({i \in 1..Len(matches) : matches[i].win})
         IN  [num |-> wins * 100, den |-> Len(matches),
              err |-> IF RoundsAbove(wins, Len(matches)) THEN 1 ELSE 0]

\* (wins / matches.length) * 100 as a fraction plus the rounding direction
calculateWinRate(matches) ==
    IF Len(matches) = 0 THEN [num |-> 0, den |-> 1, err |-> 0]
    ELSE LET wins == Cardinality({i \in 1..Len(matches) : matches[i].win})
         IN  [num |-> wins * 100, den |-> Len(matches),
              err |-> IF RoundsAbove(wins, Len(matches)) THEN 1 ELSE 0]

\* a comparison that also fires on a difference of exactly t
WinRateDiffGt_orEqual(recent, older, t) ==
    LET lhs == recent.num * older.den - older.num * recent.den
        rhs == t * recent.den * older.den
    IN  lhs >= rhs

\* recentWinRate - olderWinRate > 30 on doubles: decided by the exact
\* difference unless that is exactly 30, when the rounding errors decide
WinRateDiffGt(recent, older, t) ==
    LET lhs == recent.num * older.den - older.num * recent.den
        rhs == t * recent.den * older.den
    IN  lhs > rhs \/ (lhs = rhs /\ recent.err > older.err)

\* population variance of a sequence of fractions, as a fraction
calculateVariance(values) ==
    IF Len(values) = 0 THEN [num |-> 0, den |-> 1]
    ELSE LET n == Len(values)
             L == LcmSeq([i \in 1..n |-> values[i].den])
             x == [i \in 1..n |-> values[i].num * (L \div values[i].den)]
             sumSq == SeqSum([i \in 1..n |-> x[i] * x[i]])
             sum == SeqSum(x)
         IN  [num |-> n * sumSq - sum * sum, den |-> n * n * L * L]

calculateKDAVariance(matches) ==
    calculateVariance([i \in 1..Len(matches) |-> matches[i].kda])

(***************************************************************************)
(* Heuristic analyzer                                                      *)
(***************************************************************************)
flashId == 4

NoFlash == "null"

\* lines 731-737: which key holds flash in this match
currentFlashPosition(match) ==
    IF match.summoner1Id = flashId THEN "D"
    ELSE IF match.summoner2Id = flashId THEN "F"
    ELSE NoFlash

\* lines 739-741: does this match count as a change
isFlashChange(cur, last) == cur # NoFlash /\ last # NoFlash /\ cur # last

\* a scan that forgets the last known slot on a match without flash
nextLastFlashPosition_resets(cur, last) == cur

\* lines 743-745: the last known slot after this match
nextLastFlashPosition(cur, last) == IF cur # NoFlash THEN cur ELSE last

\* lines 730-746: the loop over the supplied history, in its given order
RECURSIVE countFlashChanges(_, _)
countFlashChanges(matches, last) ==
    IF matches = <<>> THEN 0
    ELSE LET cur == currentFlashPosition(Head(matches))
         IN  (IF isFlashChange(cur, last) THEN 1 ELSE 0)
             + countFlashChanges(Tail(matches), nextLastFlashPosition(cur, last))

\* a spike check whose older window is every match past the 20th
winRateSpike_allOlder(matches) ==
    WinRateDiffGt(calculateWinRate(Slice(matches, 0, 20)),
                  calculateWinRate(Slice(matches, 20, Len(matches))), 30)

\* lines 749-751
winRateSpike(matches) ==
    WinRateDiffGt(calculateWinRate(Slice(matches, 0, 20)),
                  calculateWinRate(Slice(matches, 20, 50)), 30)

detectBoostingIndicators(matches) ==
    LET flashPositionChanges == countFlashChanges(matches, NoFlash)
        kdaVariance == calculateKDAVariance(Slice(matches, 0, 20))
    IN  [flashPositionChanged |-> flashPositionChanges > 0,
         flashChangeCount |-> flashPositionChanges,
         recentPerformanceDrop |-> FALSE,
         suspiciousWinrateSpike |-> winRateSpike(matches),
         inconsistentPlaystyle |-> FracGt(kdaVariance, 2)]

\* The sequences of KDA values, among those the inputs of this model produce
\* (1/6, 13/6, 2/3, 3/12, 8/2, 20/10, in any order, at most 5 of them), whose
\* sum in doubles, accumulated left to right from 0, is one ulp BELOW their
\* exact sum although the exact sum equals the number of values:
\* 1/6 + 13/6 + 2/3 = 2.9999999999999996, 2/3 + 2/3 + 2 + 2/3 =
\* 3.9999999999999996.  On every other sequence of these values the double
\* mean compares with 1.0 as the exact mean does.
KdaSumRoundsBelow(kdas) ==
    LET a == [num |-> 1, den |-> 6]
        b == [num |-> 13, den |-> 6]
        c == [num |-> 2, den |-> 3]
        g == [num |-> 20, den |-> 10]
    IN  kdas \in {<<a, b, c>>, <<b, a, c>>, <<b, c, a>>, <<c, b, a>>,
                  <<c, c, g, c>>, <<c, g, c, c>>, <<g, c, c, c>>}

\* lines 779-792: the flags of a non-empty list
performanceOf(recent) ==
    LET n == Len(recent)
        sumDeaths == SeqSum([i \in 1..n |-> recent[i].deaths])
        sumVision == SeqSum([i \in 1..n |-> recent[i].visionScore])
        \* sum of the KDA fractions over their common denominator
        L == LcmSeq([i \in 1..n |-> recent[i].kda.den])
        sumKDA == SeqSum([i \in 1..n |->
                      recent[i].kda.num * (L \div recent[i].kda.den)])
        csVariance == calculateVariance(
            [i \in 1..n |-> [num |-> recent[i].totalMinionsKilled, den |-> 1]])
    IN  [isFeeding |-> sumDeaths > 10 * n,
         \* avgKDA < 1.0 on doubles: the exact comparison, except where the
         \* accumulated sum rounds below an exact mean of 1
         poorKDA |-> IF sumKDA = 1 * n * L
                     THEN KdaSumRoundsBelow([i \in 1..n |-> recent[i].kda])
                     ELSE sumKDA < 1 * n * L,
         lowVisionScore |-> sumVision < 15 * n,
         inconsistentCS |-> FracGt(csVariance, 2500)]

\* an analyzer without the empty-list guard whose means default to 0
analyzePerformance_zeroMeans(recent) ==
    IF Len(recent) = 0
    THEN [isFeeding |-> FALSE, poorKDA |-> TRUE,
          lowVisionScore |-> TRUE, inconsistentCS |-> FALSE]
    ELSE performanceOf(recent)

\* lines 769-793
analyzePerformance(recent) ==
    IF Len(recent) = 0
    THEN [isFeeding |-> FALSE, poorKDA |-> FALSE,
          lowVisionScore |-> FALSE, inconsistentCS |-> FALSE]
    ELSE performanceOf(recent)

(***************************************************************************)
(* Risk scorer                                                             *)
(***************************************************************************)
HighRanks == {"MASTER", "GRANDMASTER", "CHALLENGER"}

\* a sum whose high-rank bonus is also added on a total of exactly 30
rawRiskScore_bonusFrom30(bf, pf, ps) ==
    LET s1 == IF bf.flashPositionChanged THEN bf.flashChangeCount * 10 ELSE 0
        s7 == s1 + (IF bf.suspiciousWinrateSpike THEN 25 ELSE 0)
                 + (IF bf.inconsistentPlaystyle THEN 15 ELSE 0)
                 + (IF pf.isFeeding THEN 20 ELSE 0)
                 + (IF pf.poorKDA THEN 15 ELSE 0)
                 + (IF pf.lowVisionScore THEN 10 ELSE 0)
                 + (IF pf.inconsistentCS THEN 10 ELSE 0)
    IN  IF ps.tier \in HighRanks /\ s7 >= 30 THEN s7 + 20 ELSE s7

\* lines 803-818: the sum before the final clamp
rawRiskScore(bf, pf, ps) ==
    LET s1 == IF bf.flashPositionChanged THEN bf.flashChangeCount * 10 ELSE 0
        s2 == s1 + (IF bf.suspiciousWinrateSpike THEN 25 ELSE 0)
        s3 == s2 + (IF bf.inconsistentPlaystyle THEN 15 ELSE 0)
        s4 == s3 + (IF pf.isFeeding THEN 20 ELSE 0)
        s5 == s4 + (IF pf.poorKDA THEN 15 ELSE 0)
        s6 == s5 + (IF pf.lowVisionScore THEN 10 ELSE 0)
        s7 == s6 + (IF pf.inconsistentCS THEN 10 ELSE 0)
        isHighRank == ps.tier \in HighRanks
    IN  IF isHighRank /\ s7 > 30 THEN s7 + 20 ELSE s7

\* a scorer that forgets the final clamp
calculateRiskScore_unclamped(bf, pf, ps) == rawRiskScore(bf, pf, ps)

\* a scorer whose win-rate-spike weight is 20 instead of 25
calculateRiskScore_spike20(bf, pf, ps) ==
    Min(100, rawRiskScore(bf, pf, ps)
             - (IF bf.suspiciousWinrateSpike THEN 5 ELSE 0))

\* line 820
calculateRiskScore(bf, pf, ps) == Min(100, rawRiskScore(bf, pf, ps))

(***************************************************************************)
(* Transport responses.  A response to one call of callMCPFunction is      *)
(*   [kind |-> "error"]   the call throws                                  *)
(*   [kind |-> "null"]    a falsy result                                   *)
(*   [kind |-> "table", headers |-> set of column names, rows |-> rows]    *)
(*                        the {content:[{type:'text', text: JSON}]} form   *)
(*                        whose text parses to {headers, rows}             *)
(*   [kind |-> "other"]   an object of none of the known shapes            *)
(* A row is a record of its columns; participants is the parsed JSON list. *)
(***************************************************************************)
ErrorResponse == [kind |-> "error"]

NullResponse == [kind |-> "null"]

OtherResponse == [kind |-> "other"]

\* lines 126-161
parseMcpTable(result) ==
    IF result.kind = "table"
    THEN [found |-> TRUE, headers |-> result.headers, rows |-> result.rows]
    ELSE [found |-> FALSE, headers |-> {}, rows |-> <<>>]

\* line 552: the participant predicate
isMe(p, gameName, gameTag) ==
    /\ toLowerCase(p.summoner.game_name) = toLowerCase(gameName)
    /\ toUpperCase(p.summoner.tagline) = toUpperCase(gameTag)

\* a lookup that falls back to the first participant when none satisfies isMe
findMe_orFirst(parts, gameName, gameTag) ==
    LET hits == {i \in 1..Len(parts) : isMe(parts[i], gameName, gameTag)}
    IN  IF hits = {} THEN Min(1, Len(parts)) ELSE CHOOSE i \in hits : \A j \in hits : i <= j

\* Array.prototype.find: index of the first participant satisfying isMe, 0 if none
findMe(parts, gameName, gameTag) ==
    LET hits == {i \in 1..Len(parts) : isMe(parts[i], gameName, gameTag)}
    IN  IF hits = {} THEN 0 ELSE CHOOSE i \in hits : \A j \in hits : i <= j

\* lines 555-582: the MatchData built from the participant `me` of row r
matchFromRow(r, me) ==
    [matchId |-> r.id,
     gameCreation |-> r.created_at,
     win |-> toUpperCase(me.stats.result) = "WIN",
     kills |-> me.stats.kill,
     deaths |-> me.stats.death,
     assists |-> me.stats.assist,
     kda |-> calculateKDA(me.stats.kill, me.stats.death, me.stats.assist),
     summoner1Id |-> IF Len(me.spells) >= 1 THEN me.spells[1] ELSE 0,
     summoner2Id |-> IF Len(me.spells) >= 2 THEN me.spells[2] ELSE 0,
     visionScore |-> me.stats.vision_score,
     totalMinionsKilled |-> me.stats.minion_kill + me.stats.neutral_minion_kill]

\* lines 549-586: the loop over the rows kept by slice(0, count)
RECURSIVE parseRows(_, _, _)
parseRows(rows, gameName, gameTag) ==
    IF rows = <<>> THEN <<>>
    ELSE LET r == Head(rows)
             k == findMe(r.participants, gameName, gameTag)
             rest == parseRows(Tail(rows), gameName, gameTag)
         IN  IF k = 0 THEN rest
             ELSE <<matchFromRow(r, r.participants[k])>> \o rest

\* lines 537-588
parseMatchTable(table, gameName, gameTag, count) ==
    IF "participants" \notin table.headers THEN <<>>
    ELSE parseRows(Slice(table.rows, 0, count), gameName, gameTag)

\* lines 590-615: the MatchData built from a match object's own fields
parseDirectMatch(match) ==
    [matchId |-> match.id,
     gameCreation |-> match.created_at,
     win |-> match.own.win,
     kills |-> match.own.kills,
     deaths |-> match.own.deaths,
     assists |-> match.own.assists,
     kda |-> calculateKDA(match.own.kills, match.own.deaths, match.own.assists),
     summoner1Id |-> match.own.spell1,
     summoner2Id |-> match.own.spell2,
     visionScore |-> match.own.visionScore,
     totalMinionsKilled |-> match.own.cs]

\* lines 617-645: the MatchData built from the participant `me` of a match
parseParticipantMatch(match, me) ==
    [matchId |-> match.id,
     gameCreation |-> match.created_at,
     win |-> toUpperCase(me.stats.result) = "WIN",
     kills |-> me.stats.kill,
     deaths |-> me.stats.death,
     assists |-> me.stats.assist,
     kda |-> calculateKDA(me.stats.kill, me.stats.death, me.stats.assist),
     summoner1Id |-> IF Len(me.spells) >= 1 THEN me.spells[1] ELSE 0,
     summoner2Id |-> IF Len(me.spells) >= 2 THEN me.spells[2] ELSE 0,
     visionScore |-> me.stats.vision_score,
     totalMinionsKilled |-> me.stats.minion_kill + me.stats.neutral_minion_kill]

\* lines 509-532: the loop over the entries kept by slice(0, count); an entry
\* with kills and deaths of its own (hasStats) is taken as it is, any other
\* entry yields the participant found by the predicate, if there is one
RECURSIVE parseEntries(_, _, _)
parseEntries(entries, gameName, gameTag) ==
    IF entries = <<>> THEN <<>>
    ELSE LET match == Head(entries)
             k == findMe(match.participants, gameName, gameTag)
             rest == parseEntries(Tail(entries), gameName, gameTag)
         IN  IF match.hasStats THEN <<parseDirectMatch(match)>> \o rest
             ELSE IF k = 0 THEN rest
             ELSE <<parseParticipantMatch(match, match.participants[k])>> \o rest

\* lines 506-535
parseMatchArray(matches, gameName, gameTag, count) ==
    parseEntries(Slice(matches, 0, count), gameName, gameTag)

\* lines 470-504: a direct array, then the table form (the shapes that nest
\* an array under content, data or matches are not produced by the
\* transport of this model)
parseMatchHistoryResult(result, gameName, gameTag, count) ==
    LET table == parseMcpTable(result)
    IN  IF result.kind = "array"
        THEN parseMatchArray(result.entries, gameName, gameTag, count)
        ELSE IF table.found THEN parseMatchTable(table, gameName, gameTag, count)
        ELSE <<>>

\* lines 440-463: the loop over the parameter encodings, from encoding i on;
\* resp[i] is the transport's answer to encoding i
RECURSIVE tryHistoryFormats(_, _, _, _, _)
tryHistoryFormats(resp, i, gameName, gameTag, count) ==
    IF i > Len(resp) THEN <<>>
    ELSE IF resp[i].kind \in {"error", "null"}
         THEN tryHistoryFormats(resp, i + 1, gameName, gameTag, count)
         ELSE LET matches == parseMatchHistoryResult(resp[i], gameName, gameTag, count)
              IN  IF Len(matches) > 0 THEN matches
                  ELSE tryHistoryFormats(resp, i + 1, gameName, gameTag, count)

\* lines 401-468
getMatchHistory(resp, gameName, gameTag, count) ==
    tryHistoryFormats(resp, 1, gameName, gameTag, count)

(***************************************************************************)
(* Inputs of the analysis: the requested identity and the upstream tables  *)
(***************************************************************************)
gameName == "Faker"

gameTag == "KR1"

Flash == flashId

Ignite == 14

Teleport == 12

\* the summoner spells of a participant whose flash is on D, on F, or absent
SpellsFor(slot) ==
    CASE slot = "D" -> <<Flash, Ignite>>
      [] slot = "F" -> <<Ignite, Flash>>
      [] OTHER -> <<Ignite, Teleport>>

\* two stat lines: a solid game and a feeding game
StatsFor(profile, win) ==
    IF profile = "good"
    THEN [result |-> IF win THEN "WIN" ELSE "LOSE", kill |-> 5, death |-> 2,
          assist |-> 3, vision_score |-> 20, minion_kill |-> 140,
          neutral_minion_kill |-> 10]
    ELSE [result |-> IF win THEN "WIN" ELSE "LOSE", kill |-> 1, death |-> 12,
          assist |-> 2, vision_score |-> 5, minion_kill |-> 30,
          neutral_minion_kill |-> 0]

\* another player of the same match: flash on D, a lost feeding game
OtherParticipant ==
    [summoner |-> [game_name |-> "Other", tagline |-> "EUW"],
     spells |-> SpellsFor("D"), stats |-> StatsFor("feeder", FALSE)]

\* the requested player as upstream spells the name (lower case)
MeParticipant(slot, profile, win) ==
    [summoner |-> [game_name |-> "faker", tagline |-> "kr1"],
     spells |-> SpellsFor(slot), stats |-> StatsFor(profile, win)]

\* row number i (1 = most recent) of an upstream table
Row(i, slot, profile, win) ==
    [id |-> i, created_at |-> 1000 - i,
     participants |-> IF slot = "absent" THEN <<OtherParticipant>>
                      ELSE <<OtherParticipant, MeParticipant(slot, profile, win)>>]

Table(rows) ==
    [kind |-> "table",
     headers |-> {"id", "created_at", "game_type", "game_length_second", "participants"},
     rows |-> rows]

RowKinds == {"D", "F", "N", "absent"} \X {"good", "feeder"}

\* every table of at most MaxShort rows over RowKinds (a good game is a win)
ShortRows ==
    UNION {{[i \in 1..n |-> Row(i, k[i][1], k[i][2], k[i][2] = "good")] :
               k \in [1..n -> RowKinds]} : n \in 0..MaxShort}

OtherSlot(slot) == IF slot = "D" THEN "F" ELSE "D"

\* n rows of the player whose flash slot alternates every `period` rows
PeriodicRows(n, period, first) ==
    [i \in 1..n |-> Row(i, IF ((i - 1) \div period) % 2 = 0 THEN first
                           ELSE OtherSlot(first), "good", TRUE)]

Periods == {1, 10}

\* n rows of the player with w1 wins among rows 1..20 and w2 among rows 21..50
WinRows(n, w1, w2) ==
    [i \in 1..n |-> Row(i, "D", "good",
                        IF i <= 20 THEN i <= w1 ELSE i - 20 <= w2)]

WinTables ==
    UNION {{WinRows(n, w[1], w[2]) :
               w \in {v \in (0..20) \X (0..30) :
                         v[1] <= Min(n, 20) /\ v[2] <= Max(0, Min(n, 50) - 20)}} :
           n \in 0..MaxWinHist}

\* full histories of 50 matches with 15 wins among matches 21-50 (50%) and
\* 15, 16 or 17 wins among matches 1-20 (75%, 80%, 85%)
SpikeTables == {WinRows(50, w, 15) : w \in {15, 16, 17}}

\* the answers to the 4 encodings: encodings before ok fail with `bad`
Answers(ok, bad, rows) ==
    [i \in 1..4 |-> IF i < ok THEN bad
                    ELSE IF i = ok THEN Table(rows) ELSE OtherResponse]

ResponseSeqs ==
    {Answers(ok, bad, rows) :
        ok \in 1..5, bad \in {ErrorResponse, NullResponse}, rows \in ShortRows}
    \cup {Answers(1, NullResponse, PeriodicRows(n, p, f)) :
            n \in 0..MaxHist, p \in Periods, f \in {"D", "F"}}
    \cup {Answers(1, NullResponse, rows) : rows \in WinTables}
    \cup {Answers(1, NullResponse, rows) : rows \in SpikeTables}

Tiers == {"UNRANKED", "IRON", "BRONZE", "SILVER", "GOLD", "PLATINUM",
          "EMERALD", "DIAMOND", "MASTER", "GRANDMASTER", "CHALLENGER"}

StatsOf(tier) ==
    [summonerName |-> gameName, gameTag |-> gameTag, region |-> "euw", tier |-> tier]

NoStats == [summonerName |-> "", gameTag |-> "", region |-> "", tier |-> ""]

NoBoostedFlags ==
    [flashPositionChanged |-> FALSE, flashChangeCount |-> 0,
     recentPerformanceDrop |-> FALSE, suspiciousWinrateSpike |-> FALSE,
     inconsistentPlaystyle |-> FALSE]

NoPerformanceFlags ==
    [isFeeding |-> FALSE, poorKDA |-> FALSE,
     lowVisionScore |-> FALSE, inconsistentCS |-> FALSE]

NoScore == -1

(***************************************************************************)
(* analyzePlayer, data path (lines 682-713): what it computes from the     *)
(* answers of the transport                                                *)
(***************************************************************************)
\* the Transport/Cache layer while no makeRequest call is modelled
RequestIdle ==
    /\ clock = 0
    /\ lastRequestTime = 0
    /\ cache = <<>>
    /\ calls = <<>>
    /\ invocations = <<>>

\* the lobby loop while no lobby analysis is modelled
LobbyIdle ==
    /\ driver = "none"
    /\ lpc = "none"
    /\ playerIdx = 0
    /\ stage = <<>>
    /\ task = <<>>
    /\ unresponsive = <<>>
    /\ gap = <<>>
    /\ outcome = <<>>
    /\ called = <<>>
    /\ logs = <<>>
    /\ results = <<>>

\* searchSummoner / getMatchHistory while no single step is modelled
StepIdle ==
    /\ sop = "none"
    /\ spc = "none"
    /\ round = 0
    /\ attempts = <<>>
    /\ answered = {}
    /\ ret = "none"

\* the views while none of them is modelled
UiIdle ==
    /\ cpc = "none"
    /\ players = <<>>
    /\ autoAnalyze = FALSE
    /\ isRunning = FALSE
    /\ isLoading = FALSE
    /\ lastAttemptedKey = [isNull |-> TRUE, ids |-> {}]
    /\ loops = <<>>
    /\ config = [loaded |-> FALSE, autoSelectIvern |-> FALSE, autoLockIvern |-> FALSE]
    /\ ivernEnabled = FALSE
    /\ autoLock = TRUE
    /\ monitors = <<>>
    /\ resuming = 0
    /\ sent = {}
    /\ uiEvents = 0

nonAnalysisVars == <<requestVars, lobbyVars, stepVars, uiVars>>

\* lines 185, 401, 654, 851: the default value of the region parameter
DefaultRegion == "na1"

HistoryCount == 50

PerformanceWindow == 5

InitAnalyze ==
    /\ apc = "searching"
    /\ callerRegion = DefaultRegion
    /\ countParam = HistoryCount
    /\ UiIdle
    /\ responses \in ResponseSeqs
    /\ playerStats = NoStats
    /\ recentMatches = <<>>
    /\ boostedFlags = NoBoostedFlags
    /\ performanceFlags = NoPerformanceFlags
    /\ riskScore = NoScore
    /\ RequestIdle
    /\ LobbyIdle
    /\ StepIdle

\* lines 684-692: searchSummoner answers null (throw) or a PlayerStats
SearchStep ==
    /\ apc = "searching"
    /\ \E found \in BOOLEAN, tier \in {"GOLD", "MASTER"} :
          IF found
          THEN apc' = "fetchingHistory" /\ playerStats' = StatsOf(tier)
          ELSE apc' = "failed" /\ playerStats' = playerStats
    /\ UNCHANGED <<callerRegion, countParam, responses, recentMatches, boostedFlags, performanceFlags, riskScore>>
    /\ UNCHANGED nonAnalysisVars

\* lines 694-699
HistoryStep ==
    /\ apc = "fetchingHistory"
    /\ recentMatches' = getMatchHistory(responses, gameName, gameTag, HistoryCount)
    /\ apc' = "analyzing"
    /\ UNCHANGED <<callerRegion, countParam, responses, playerStats, boostedFlags, performanceFlags, riskScore>>
    /\ UNCHANGED nonAnalysisVars

\* lines 701-713
AnalyzeStep ==
    /\ apc = "analyzing"
    /\ boostedFlags' = detectBoostingIndicators(recentMatches)
    /\ performanceFlags' = analyzePerformance(Slice(recentMatches, 0, PerformanceWindow))
    /\ riskScore' = calculateRiskScore(boostedFlags', performanceFlags', playerStats)
    /\ apc' = "done"
    /\ UNCHANGED <<callerRegion, countParam, responses, playerStats, recentMatches>>
    /\ UNCHANGED nonAnalysisVars

NextAnalyze == SearchStep \/ HistoryStep \/ AnalyzeStep

SpecAnalyze == InitAnalyze /\ [][NextAnalyze]_vars

(***************************************************************************)
(* calculateRiskScore on its own: every flags value, every tier            *)
(***************************************************************************)
FlashCounts == (0..MaxFlashCount) \cup {69}

BoostingFlagsValues ==
    [flashPositionChanged : BOOLEAN, flashChangeCount : FlashCounts,
     recentPerformanceDrop : {FALSE}, suspiciousWinrateSpike : BOOLEAN,
     inconsistentPlaystyle : BOOLEAN]

PerformanceFlagsValues ==
    [isFeeding : BOOLEAN, poorKDA : BOOLEAN,
     lowVisionScore : BOOLEAN, inconsistentCS : BOOLEAN]

InitScore ==
    /\ apc = "scoring"
    /\ boostedFlags \in BoostingFlagsValues
    /\ performanceFlags \in PerformanceFlagsValues
    /\ playerStats \in {StatsOf(t) : t \in Tiers}
    /\ riskScore = NoScore
    /\ callerRegion = DefaultRegion
    /\ countParam = HistoryCount
    /\ UiIdle
    /\ responses = <<>>
    /\ recentMatches = <<>>
    /\ RequestIdle
    /\ LobbyIdle
    /\ StepIdle

CalculateRiskScoreStep ==
    /\ apc = "scoring"
    /\ riskScore' = calculateRiskScore(boostedFlags, performanceFlags, playerStats)
    /\ apc' = "scored"
    /\ UNCHANGED <<callerRegion, countParam, responses, playerStats, recentMatches, boostedFlags, performanceFlags>>
    /\ UNCHANGED nonAnalysisVars

NextScore == CalculateRiskScoreStep

SpecScore == InitScore /\ [][NextScore]_vars

(***************************************************************************)
(* The heuristics on their own (lines 701-713): histories of at most       *)
(* MaxPerfHist matches whose stat lines sit on and around the thresholds   *)
(* of analyzePerformance, for every tier                                   *)
(***************************************************************************)
PerfKinds == {"A", "B", "C", "D", "E", "G"}

\* the stat line of one game of each kind
PerfStats(kind) ==
    CASE kind = "A" -> [result |-> "WIN", kill |-> 1, death |-> 6, assist |-> 0,
                        vision_score |-> 15, minion_kill |-> 100, neutral_minion_kill |-> 0]
      [] kind = "B" -> [result |-> "LOSE", kill |-> 13, death |-> 6, assist |-> 0,
                        vision_score |-> 15, minion_kill |-> 0, neutral_minion_kill |-> 0]
      [] kind = "C" -> [result |-> "WIN", kill |-> 2, death |-> 3, assist |-> 0,
                        vision_score |-> 14, minion_kill |-> 40, neutral_minion_kill |-> 10]
      [] kind = "D" -> StatsFor("feeder", FALSE)
      [] kind = "E" -> StatsFor("good", TRUE)
      [] OTHER -> [result |-> "LOSE", kill |-> 12, death |-> 10, assist |-> 8,
                   vision_score |-> 16, minion_kill |-> 90, neutral_minion_kill |-> 10]

PerfRow(i, kind) ==
    [id |-> i, created_at |-> 1000 - i,
     participants |-> <<OtherParticipant,
                        [summoner |-> [game_name |-> "faker", tagline |-> "kr1"],
                         spells |-> SpellsFor("D"), stats |-> PerfStats(kind)]>>]

\* the histories parseMatchTable builds from the tables of n rows over PerfKinds
PerfHistories(n) ==
    {parseMatchTable(Table([i \in 1..n |-> PerfRow(i, k[i])]),
                     gameName, gameTag, HistoryCount) : k \in [1..n -> PerfKinds]}

\* row i of a long history: a solid game, except for feeding games at rows 5,
\* 10 and 15 and where the variation says so at row 6 (just past the
\* performance window) and at row 21 (just past the KDA-variance window);
\* lost games at rows 5, 10, 15 and 38-50, and past row 50 where the
\* variation says so
WindowRow(i, at6, at21, winPast50) ==
    Row(i, "D",
        IF i \in {5, 10, 15} THEN "feeder"
        ELSE IF i = 6 THEN at6
        ELSE IF i = 21 THEN at21
        ELSE "good",
        IF i <= 20 THEN i \notin {5, 10, 15}
        ELSE IF i <= 50 THEN i <= 37
        ELSE winPast50)

\* the history parseMatchTable builds from n such rows; the whole table is
\* kept, as for a caller of the heuristics that fetched more than 50 matches
WindowHistory(n, at6, at21, winPast50) ==
    parseMatchTable(Table([i \in 1..n |-> WindowRow(i, at6, at21, winPast50)]),
                    gameName, gameTag, n)

WindowHistories ==
    {WindowHistory(n, a, b, c) :
        n \in 0..MaxHist, a \in {"good", "feeder"}, b \in {"good", "feeder"},
        c \in BOOLEAN}

InitHeuristics ==
    /\ apc = "analyzing"
    /\ \/ /\ recentMatches \in UNION {PerfHistories(n) : n \in 0..MaxPerfHist}
          /\ playerStats \in {StatsOf("GOLD"), StatsOf("MASTER")}
       \/ /\ recentMatches \in PerfHistories(0) \cup PerfHistories(1)
          /\ playerStats \in {StatsOf(t) : t \in Tiers}
       \/ /\ recentMatches \in WindowHistories
          /\ playerStats = StatsOf("GOLD")
    /\ callerRegion = DefaultRegion
    /\ countParam = HistoryCount
    /\ UiIdle
    /\ responses = <<>>
    /\ boostedFlags = NoBoostedFlags
    /\ performanceFlags = NoPerformanceFlags
    /\ riskScore = NoScore
    /\ RequestIdle
    /\ LobbyIdle
    /\ StepIdle

NextHeuristics == AnalyzeStep

SpecHeuristics == InitHeuristics /\ [][NextHeuristics]_vars

(***************************************************************************)
(* The summoner parsers (lines 163-182, 228-250, 267-395) and the region   *)
(* handed down to them.  A field of an upstream object is a JS value: a    *)
(* number, a string, or absent (undefined / null).                         *)
(***************************************************************************)
Absent == [type |-> "absent", num |-> 0, str |-> ""]

Str(s) == [type |-> "string", num |-> 0, str |-> s]

Num(n) == [type |-> "number", num |-> n, str |-> ""]

\* JS truthiness of a field value
truthy(v) ==
    CASE v.type = "number" -> v.num # 0
      [] v.type = "string" -> v.str # ""
      [] OTHER -> FALSE

\* Object.prototype.toString of a string or a small number
jsToString(v) ==
    CASE v.type = "string" -> v.str
      [] v.num = 1 -> "1"
      [] v.num = 2 -> "2"
      [] v.num = 3 -> "3"
      [] v.num = 4 -> "4"
      [] OTHER -> "0"

\* lines 163-166: map[div] looks the key up by its string form
roman(div) ==
    LET key == jsToString(div)
    IN  IF ~ truthy(div) THEN ""
        ELSE CASE key = "1" -> "I" [] key = "2" -> "II" [] key = "3" -> "III"
               [] key = "4" -> "IV" [] OTHER -> ""

\* lines 169-170
normalizeTier(tier) ==
    LET normTier == toUpperCase(tier)
    IN  IF normTier \in {"", "NA", "NONE"} THEN "UNRANKED" ELSE normTier

\* lines 168-181; raw.rank is a JS value: calling toUpperCase on a number
\* throws a TypeError
normalizePlayerStats(raw) ==
    IF truthy(raw.rank) /\ raw.rank.type = "number"
    THEN [threw |-> TRUE, stats |-> NoStats]
    ELSE LET normRank == IF truthy(raw.rank) THEN toUpperCase(raw.rank.str) ELSE ""
         IN  [threw |-> FALSE,
              stats |-> [summonerName |-> raw.summonerName,
                         gameTag |-> raw.gameTag,
                         region |-> toLowerCase(IF raw.region = "" THEN "euw" ELSE raw.region),
                         tier |-> normalizeTier(raw.tier),
                         rank |-> IF normRank \in {"NA", "NONE"} THEN "" ELSE normRank]]

\* lines 267-294 (the payloads of this model carry no rank_division); what
\* normalizePlayerStats throws is caught at 290 and null is returned
parseDirectSummonerResult(result, name, tag, region) ==
    LET tier == toUpperCase(jsToString(
                    IF truthy(result.tier) THEN result.tier
                    ELSE IF truthy(result.rank) THEN result.rank
                    ELSE Str("UNRANKED")))
        rank == IF truthy(result.division) THEN result.division ELSE Str("")
        norm == normalizePlayerStats([summonerName |-> name, gameTag |-> tag,
                                      region |-> region, tier |-> tier, rank |-> rank])
    IN  IF norm.threw THEN NoStats ELSE norm.stats

\* lines 296-370: the row of the identity, or else the first row; the tier
\* and division of its solo-queue entry
parseTableSummonerResult(table, name, tag, region) ==
    LET hits == {i \in 1..Len(table.rows) :
                    /\ toLowerCase(table.rows[i].game_name) = toLowerCase(name)
                    /\ toUpperCase(table.rows[i].tagline) = toUpperCase(tag)}
        row == table.rows[IF hits = {} THEN 1 ELSE CHOOSE i \in hits : \A j \in hits : i <= j]
        tier == IF row.solo /\ truthy(row.tier) THEN toUpperCase(row.tier.str) ELSE "UNRANKED"
        division == IF row.solo THEN roman(row.division) ELSE ""
        norm == normalizePlayerStats([summonerName |-> name, gameTag |-> tag,
                                      region |-> region, tier |-> tier,
                                      rank |-> Str(division)])
    IN  IF ~ table.hasIdentityColumns \/ table.rows = <<>> THEN NoStats
        ELSE norm.stats

\* lines 373-395: an object under content or data is parsed as a direct
\* result, a string is not
parseNestedSummonerResult(nested, name, tag, region) ==
    IF nested.kind = "object"
    THEN parseDirectSummonerResult(nested, name, tag, region)
    ELSE NoStats

\* lines 187, 403, 659: 'Force EUW for now' (the champ-select listener of
\* reveal.svelte, line 336, does the same to the region it hands on)
forcedRegion(region) == "euw"

Slugs == {"na", "euw", "eune", "kr", "jp", "br", "lan", "las", "oce", "ru", "tr",
          "sg", "ph", "tw", "vn", "th"}

\* reveal.svelte lines 361-378
mapRegion(input) ==
    LET val == toUpperCase(input)
    IN  IF input = "" THEN "na"
        ELSE IF toLowerCase(input) \in Slugs THEN toLowerCase(input)
        ELSE CASE val \in {"NA1", "NA"} -> "na"
               [] val \in {"EUW1", "EUW"} -> "euw"
               [] val \in {"EUN1", "EUNE", "EUN"} -> "eune"
               [] val = "KR" -> "kr"
               [] val \in {"JP1", "JP"} -> "jp"
               [] val \in {"BR1", "BR"} -> "br"
               [] val \in {"LA1", "LA"} -> "lan"
               [] val = "LA2" -> "las"
               [] val \in {"OC1", "OC"} -> "oce"
               [] val = "RU" -> "ru"
               [] val \in {"TR1", "TR"} -> "tr"
               [] val \in {"SG2", "SG"} -> "sg"
               [] val \in {"PH2", "PH"} -> "ph"
               [] val \in {"TW2", "TW"} -> "tw"
               [] val \in {"VN2", "VN"} -> "vn"
               [] val \in {"TH2", "TH"} -> "th"
               [] OTHER -> "na"

\* lines 228-250 on one truthy answer, with the region of line 187
parseSummonerAnswer(result, name, tag, region) ==
    CASE result.kind = "direct" ->
            parseDirectSummonerResult(result, name, tag, forcedRegion(region))
      [] result.kind = "summonerTable" ->
            parseTableSummonerResult(result, name, tag, forcedRegion(region))
      [] result.kind = "nested" ->
            parseNestedSummonerResult(result.content, name, tag, forcedRegion(region))
      [] OTHER -> NoStats

(***************************************************************************)
(* The inputs of the summoner parsers: tier, rank and division values on   *)
(* and around the ones the normalizer treats specially                     *)
(***************************************************************************)
TierValues ==
    {Absent, Str(""), Str("gold"), Str("GOLD"), Str("Master"), Str("na"),
     Str("NA"), Str("None"), Str("NONE"), Str("wood")}

RankValues == {Absent, Str("IV")}

DivisionValues ==
    {Absent, Num(1), Num(2), Num(3), Num(4), Str("2"), Str("II"), Str("na")}

\* an object that has tier, rank or level (its level is always there)
DirectObjects ==
    {[kind |-> "direct", tier |-> t, rank |-> r, division |-> d] :
        t \in TierValues, r \in RankValues, d \in DivisionValues}

SummonerRow(name, tag, solo, t, d) ==
    [game_name |-> name, tagline |-> tag, solo |-> solo, tier |-> t, division |-> d]

SummonerTables ==
    {[kind |-> "summonerTable", hasIdentityColumns |-> TRUE,
      rows |-> <<SummonerRow(n[1], n[2], TRUE, t, d)>>] :
        n \in {<<"faker", "kr1">>, <<"Other", "EUW">>},
        t \in TierValues, d \in DivisionValues}
    \cup {[kind |-> "summonerTable", hasIdentityColumns |-> c, rows |-> rows] :
            c \in BOOLEAN,
            rows \in {<<>>, <<SummonerRow("faker", "kr1", FALSE, Absent, Absent)>>}}

NestedAnswers ==
    {[kind |-> "nested", content |-> [o EXCEPT !.kind = "object"]] : o \in DirectObjects}
    \cup {[kind |-> "nested",
           content |-> [kind |-> "text", tier |-> Absent, rank |-> Absent,
                        division |-> Absent]]}

SummonerAnswers == DirectObjects \cup SummonerTables \cup NestedAnswers

RegionInputs == {"", "na1", "NA1", "kr", "KR", "Euw", "euw1", "LA2", "xx"}

InitSummoner ==
    /\ apc = "searching"
    /\ countParam = HistoryCount
    /\ UiIdle
    /\ \/ callerRegion = DefaultRegion /\ responses \in {<<r>> : r \in SummonerAnswers}
       \/ /\ callerRegion \in RegionInputs
          /\ responses \in {<<[kind |-> "direct", tier |-> Str("GOLD"), rank |-> Absent,
                               division |-> d]>> : d \in {Str("II"), Num(2)}}
    /\ playerStats = NoStats
    /\ recentMatches = <<>>
    /\ boostedFlags = NoBoostedFlags
    /\ performanceFlags = NoPerformanceFlags
    /\ riskScore = NoScore
    /\ RequestIdle
    /\ LobbyIdle
    /\ StepIdle

\* lines 659 and 684-692: analyzePlayer sets its region, searchSummoner
\* returns what the parsers make of the answer, null fails the player
SummonerStep ==
    /\ apc = "searching"
    /\ playerStats' = parseSummonerAnswer(responses[1], gameName, gameTag,
                                          forcedRegion(callerRegion))
    /\ apc' = IF playerStats' = NoStats THEN "failed" ELSE "found"
    /\ UNCHANGED <<callerRegion, countParam, responses, recentMatches, boostedFlags,
                   performanceFlags, riskScore>>
    /\ UNCHANGED nonAnalysisVars

NextSummoner == SummonerStep

SpecSummoner == InitSummoner /\ [][NextSummoner]_vars

(***************************************************************************)
(* The match parsers on their own (lines 470-645): one upstream answer, a  *)
(* direct array or a table, of at most MaxEntries entries whose            *)
(* participants spell the identity in several ways and whose creation      *)
(* times come in any order                                                 *)
(***************************************************************************)
\* a stat line with no death
DeathlessStats ==
    [result |-> "win", kill |-> 5, death |-> 0, assist |-> 3,
     vision_score |-> 30, minion_kill |-> 150, neutral_minion_kill |-> 20]

ParticipantOf(name, tag, slot, stats) ==
    [summoner |-> [game_name |-> name, tagline |-> tag],
     spells |-> SpellsFor(slot), stats |-> stats]

\* kills, deaths and the other fields a flat match object carries itself
OwnStats ==
    [kills |-> 7, deaths |-> 0, assists |-> 4, win |-> TRUE,
     spell1 |-> Ignite, spell2 |-> Flash, visionScore |-> 25, cs |-> 200]

NoOwnStats ==
    [kills |-> 0, deaths |-> 0, assists |-> 0, win |-> FALSE,
     spell1 |-> 0, spell2 |-> 0, visionScore |-> 0, cs |-> 0]

EntryKinds == {"me", "meUpper", "sameName", "others", "noList", "flat", "flatOthers"}

ParticipantsOf(kind) ==
    CASE kind = "me" ->
            <<OtherParticipant, ParticipantOf("faker", "kr1", "F", StatsFor("good", TRUE))>>
      [] kind = "meUpper" ->
            <<ParticipantOf("FAKER", "KR1", "F", DeathlessStats), OtherParticipant>>
      [] kind = "sameName" ->
            <<ParticipantOf("Faker", "EUW", "F", StatsFor("good", TRUE)),
              ParticipantOf("Other", "kr1", "F", DeathlessStats)>>
      [] kind \in {"others", "flatOthers"} -> <<OtherParticipant>>
      [] OTHER -> <<>>

\* entry number i of an upstream answer, created at time t
Entry(i, kind, t) ==
    [id |-> i, created_at |-> t,
     hasStats |-> kind \in {"flat", "flatOthers"},
     own |-> IF kind \in {"flat", "flatOthers"} THEN OwnStats ELSE NoOwnStats,
     participants |-> ParticipantsOf(kind)]

\* the creation times of n entries, in every order
EntryTimes(n) == {t \in [1..n -> 1..n] : \A i, j \in 1..n : i # j => t[i] # t[j]}

EntrySeqs ==
    UNION {{[i \in 1..n |-> Entry(i, k[i], 1000 + t[i])] :
               k \in [1..n -> EntryKinds], t \in EntryTimes(n)} : n \in 0..MaxEntries}

ArrayResponse(entries) == [kind |-> "array", entries |-> entries]

ParseInputs ==
    {ArrayResponse(e) : e \in EntrySeqs} \cup {Table(e) : e \in EntrySeqs}

\* the count argument: fewer than, as many as and more than the entries
ParseCounts == {1, MaxEntries, HistoryCount}

InitParse ==
    /\ apc = "parsing"
    /\ callerRegion = DefaultRegion
    /\ countParam \in ParseCounts
    /\ UiIdle
    /\ responses \in {<<r>> : r \in ParseInputs}
    /\ playerStats = NoStats
    /\ recentMatches = <<>>
    /\ boostedFlags = NoBoostedFlags
    /\ performanceFlags = NoPerformanceFlags
    /\ riskScore = NoScore
    /\ RequestIdle
    /\ LobbyIdle
    /\ StepIdle

\* lines 447-449: the answer of one encoding is parsed
ParseStep ==
    /\ apc = "parsing"
    /\ recentMatches' = parseMatchHistoryResult(responses[1], gameName, gameTag, countParam)
    /\ apc' = "parsed"
    /\ UNCHANGED <<callerRegion, countParam, responses, playerStats, boostedFlags, performanceFlags, riskScore>>
    /\ UNCHANGED nonAnalysisVars

NextParse == ParseStep

SpecParse == InitParse /\ [][NextParse]_vars

(***************************************************************************)
(* Transport/Cache: makeRequest (lines 74-102).  Several calls may be in   *)
(* progress at once; each suspends at its rate-limit wait and while the    *)
(* transport call is in flight.  Timers fire at or after their due time.   *)
(***************************************************************************)
rateLimitDelay == 1000

cacheTimeout == 300000

Keys == {"search-a", "search-b"}

CallIds == 1..MaxCalls

\* Date.now() is far from 0, so the first call never waits
StartClock == rateLimitDelay

HalfDelay == rateLimitDelay \div 2

LongJump == cacheTimeout - rateLimitDelay

TickSteps == {HalfDelay, LongJump}

MaxClock == StartClock + LongJump + MaxSmallTicks * HalfDelay

\* storedAt records the moment of the cache.set, which the code does not keep
NoEntry == [present |-> FALSE, timestamp |-> 0, data |-> 0, storedAt |-> 0]

IdleCall ==
    [pc |-> "idle", key |-> "", now |-> 0, wakeAt |-> 0, invoked |-> FALSE,
     result |-> 0, activeAtStart |-> {}, doneAtStart |-> {}]

Active(c) == c.pc \in {"waiting", "inflight"}

Finished(c) == c.pc \in {"returned", "thrown"}

InitRequest ==
    /\ clock = StartClock
    /\ lastRequestTime = 0
    /\ cache = [k \in Keys |-> NoEntry]
    /\ calls = [i \in CallIds |-> IdleCall]
    /\ invocations = <<>>
    /\ apc = "idle"
    /\ callerRegion = DefaultRegion
    /\ countParam = HistoryCount
    /\ UiIdle
    /\ responses = <<>>
    /\ playerStats = NoStats
    /\ recentMatches = <<>>
    /\ boostedFlags = NoBoostedFlags
    /\ performanceFlags = NoPerformanceFlags
    /\ riskScore = NoScore
    /\ LobbyIdle
    /\ StepIdle

\* a lookup that never finds the entry
cacheHit_never(entry, now) == FALSE

\* line 85: cachedData && (now - cachedData.timestamp) < this.cacheTimeout
cacheHit(entry, now) == entry.present /\ (now - entry.timestamp) < cacheTimeout

\* lines 82-92: the code after the optional wait, for a call record c
AfterWait(i, c) ==
    IF cacheHit(cache[c.key], c.now)
    THEN /\ calls' = [calls EXCEPT ![i] =
                        [c EXCEPT !.pc = "returned", !.result = cache[c.key].data]]
         /\ invocations' = invocations
    ELSE /\ calls' = [calls EXCEPT ![i] = [c EXCEPT !.pc = "inflight", !.invoked = TRUE]]
         /\ invocations' = Append(invocations, [call |-> i, key |-> c.key, at |-> clock])

\* the keys are interchangeable: the first call uses the first key
KeysFor(i) == IF i = 1 THEN {"search-a"} ELSE Keys

\* lines 75-80 and, when no wait is needed, on through line 92
IssueCall(i, key) ==
    /\ calls[i].pc = "idle"
    /\ IF i = 1 THEN TRUE ELSE calls[i - 1].pc # "idle"
    /\ key \in KeysFor(i)
    /\ LET now == clock
           timeSinceLastRequest == now - lastRequestTime
           c == [IdleCall EXCEPT !.key = key, !.now = now,
                    !.activeAtStart = {j \in CallIds : Active(calls[j])},
                    !.doneAtStart = {j \in CallIds : Finished(calls[j])}]
       IN  IF timeSinceLastRequest < rateLimitDelay
           THEN /\ calls' = [calls EXCEPT ![i] =
                               [c EXCEPT !.pc = "waiting",
                                         !.wakeAt = clock + (rateLimitDelay - timeSinceLastRequest)]]
                /\ invocations' = invocations
           ELSE AfterWait(i, c)
    /\ UNCHANGED <<clock, lastRequestTime, cache>>
    /\ UNCHANGED <<analysisVars, lobbyVars, stepVars, uiVars>>

\* line 79: the rate-limit timer fires
WakeUp(i) ==
    /\ calls[i].pc = "waiting"
    /\ clock >= calls[i].wakeAt
    /\ AfterWait(i, calls[i])
    /\ UNCHANGED <<clock, lastRequestTime, cache>>
    /\ UNCHANGED <<analysisVars, lobbyVars, stepVars, uiVars>>

\* lines 92-97: the transport call resolves
RespondOk(i) ==
    /\ calls[i].pc = "inflight"
    /\ LET token == CHOOSE n \in 1..Len(invocations) : invocations[n].call = i
       IN  /\ lastRequestTime' = clock
           /\ cache' = [cache EXCEPT ![calls[i].key] =
                           [present |-> TRUE, timestamp |-> calls[i].now,
                            data |-> token, storedAt |-> clock]]
           /\ calls' = [calls EXCEPT ![i].pc = "returned", ![i].result = token]
    /\ UNCHANGED <<clock, invocations>>
    /\ UNCHANGED <<analysisVars, lobbyVars, stepVars, uiVars>>

\* a catch that stores the failure under the key before rethrowing
RespondError_memoizes(i) ==
    /\ calls[i].pc = "inflight"
    /\ calls' = [calls EXCEPT ![i].pc = "thrown"]
    /\ cache' = [cache EXCEPT ![calls[i].key] =
                    [present |-> TRUE, timestamp |-> calls[i].now,
                     data |-> 0, storedAt |-> clock]]
    /\ UNCHANGED <<clock, lastRequestTime, invocations>>
    /\ UNCHANGED <<analysisVars, lobbyVars, stepVars, uiVars>>

\* lines 98-101: the transport call rejects
RespondError(i) ==
    /\ calls[i].pc = "inflight"
    /\ calls' = [calls EXCEPT ![i].pc = "thrown"]
    /\ UNCHANGED <<clock, lastRequestTime, cache, invocations>>
    /\ UNCHANGED <<analysisVars, lobbyVars, stepVars, uiVars>>

\* time passes: half a rate-limit delay, or a jump of almost the cache TTL
Tick(d) ==
    /\ d \in TickSteps
    /\ clock + d <= MaxClock
    /\ d = HalfDelay =>
          ((clock - StartClock) % LongJump) + d <= MaxSmallTicks * HalfDelay
    /\ clock' = clock + d
    /\ UNCHANGED <<lastRequestTime, cache, calls, invocations>>
    /\ UNCHANGED <<analysisVars, lobbyVars, stepVars, uiVars>>

NextRequest ==
    \/ \E i \in CallIds, key \in Keys : IssueCall(i, key)
    \/ \E i \in CallIds : WakeUp(i)
    \/ \E i \in CallIds : RespondOk(i)
    \/ \E i \in CallIds : RespondError(i)
    \/ \E d \in TickSteps : Tick(d)

SpecRequest == InitRequest /\ [][NextRequest]_vars

(***************************************************************************)
(* Lobby orchestration.  Two loops drive analyzePlayer over a lobby:       *)
(*   "api"        analyzeLobbyPlayers, opgg-api.ts lines 851-870           *)
(*   "component"  analyzePlayers, LobbyAnalysis.svelte lines 53-135        *)
(* analyzePlayer (lines 651-719) awaits searchSummoner and getMatchHistory *)
(* under withTimeout; each of the two tries its 4 parameter encodings one  *)
(* call at a time and keeps running after a timeout has rejected the wait. *)
(* Only one timer is pending at any moment (the 15 s timer of the current  *)
(* wait, or the delay between two players), so time is not measured here:  *)
(* a pending timer fires at some moment unless it is cleared first.        *)
(***************************************************************************)
Players == 1..NumPlayers

NumFormats == 4

NoCall == [kind |-> "none", fmt |-> 0]

Call(kind, fmt) == [kind |-> kind, fmt |-> fmt]

Terminal(i) == stage[i] \in {"done", "failed"}

\* what one summoner-search call can answer: a throw, a payload no parser
\* accepts, a payload that parses to a PlayerStats, one that parses to null
SearchAnswers == {"error", "unparseable", "found", "null"}

\* what one game-history call can answer
HistoryAnswers == {"error", "empty", "matches"}

\* a component that hands analyzePlayer no callback and logs nothing itself
Progress_none(events) == <<>>

\* the progress callback exists only in the component's loop
Progress(events) == IF driver = "component" THEN events ELSE <<>>

InitLobby ==
    /\ driver \in {"api", "component"}
    /\ lpc = "idle"
    /\ playerIdx = 0
    /\ stage = [i \in Players |-> "pending"]
    /\ task = [i \in Players |-> NoCall]
    /\ unresponsive = [i \in Players |-> FALSE]
    /\ gap = [i \in Players |-> 0]
    /\ outcome = [i \in Players |-> "none"]
    /\ called = [i \in Players |-> FALSE]
    /\ logs = [i \in Players |-> <<>>]
    /\ results = <<>>
    /\ apc = "idle"
    /\ callerRegion = DefaultRegion
    /\ countParam = HistoryCount
    /\ UiIdle
    /\ responses = <<>>
    /\ playerStats = NoStats
    /\ recentMatches = <<>>
    /\ boostedFlags = NoBoostedFlags
    /\ performanceFlags = NoPerformanceFlags
    /\ riskScore = NoScore
    /\ RequestIdle
    /\ StepIdle

\* component line 126: setTimeout(r, 800)
ComponentDelay == 800

\* the delay each loop awaits before its next player (api 863, component 126)
interPlayerDelay == IF driver = "api" THEN rateLimitDelay ELSE ComponentDelay

LobbySet(l, idx, st, tk, oc, cl, lg, rs) ==
    /\ lpc' = l
    /\ playerIdx' = idx
    /\ stage' = st
    /\ task' = tk
    /\ outcome' = oc
    /\ called' = cl
    /\ logs' = lg
    /\ results' = rs
    /\ UNCHANGED driver
    /\ UNCHANGED <<analysisVars, requestVars, stepVars, uiVars>>

\* the loop head for player i (api 855-857, component 68-87) and
\* analyzePlayer up to its first await (lines 682-688): the first
\* summoner-search call is made and the 15 s timer armed; past the last
\* player the loop ends (api 869, component 129-134)
BeginPlayer(i, st, tk, oc, cl, lg, rs) ==
    IF i > NumPlayers
    THEN /\ LobbySet("finished", i, st, tk, oc, cl, lg, rs)
         /\ UNCHANGED <<unresponsive, gap>>
    ELSE /\ LobbySet("awaitPlayer", i,
                     [st EXCEPT ![i] = "searching"],
                     [tk EXCEPT ![i] = Call("search", 1)],
                     oc,
                     [cl EXCEPT ![i] = TRUE],
                     [lg EXCEPT ![i] = @ \o Progress(<<"starting", "startingAnalysis", "searching">>)],
                     rs)
         \* the environment decides whether the transport will answer for i
         /\ \E u \in BOOLEAN : unresponsive' = [unresponsive EXCEPT ![i] = u]
         \* the time the loop spent waiting since the previous player ended
         /\ gap' = [gap EXCEPT ![i] = IF lpc = "delay" THEN interPlayerDelay ELSE 0]

\* a loop that inserts the newest result in front
pushResult_front(rs, r) == <<r>> \o rs

\* api line 859 (results.push), component line 90 (analyses = [...analyses, result])
pushResult(rs, r) == Append(rs, r)

\* analyzePlayer fulfilled for player i: the result is collected and the
\* loop waits its inter-player delay (api 858-863, component 89-95 and 126)
AfterFulfilled(i, r, st, tk, oc, cl, lg, rs) ==
    /\ LobbySet("delay", i, st, tk, oc, cl,
                [lg EXCEPT ![i] = @ \o Progress(<<"complete">>)],
                pushResult(rs, r))
    /\ UNCHANGED <<unresponsive, gap>>

\* a loop without a catch: the rejection leaves the loop
AfterRejected_rethrows(i, st, tk, oc, cl, lg, rs) ==
    /\ LobbySet("thrown", i, st, tk, oc, cl, lg, rs)
    /\ UNCHANGED <<unresponsive, gap>>

\* analyzePlayer rejected for player i: the catch swallows the error; the
\* api loop goes straight to the next player (864-866), the component logs
\* the error and waits its delay (103-126)
AfterRejected(i, st, tk, oc, cl, lg, rs) ==
    IF driver = "component"
    THEN /\ LobbySet("delay", i, st, tk, oc, cl,
                     [lg EXCEPT ![i] = @ \o Progress(<<"error">>)], rs)
         /\ UNCHANGED <<unresponsive, gap>>
    ELSE BeginPlayer(i + 1, st, tk, oc, cl, lg, rs)

\* the loop is started (api 851-855, component 53-68)
StartLobby ==
    /\ lpc = "idle"
    /\ BeginPlayer(1, stage, task, outcome, called, logs, results)

\* the delay between two players has elapsed (api 863, component 126)
DelayDone ==
    /\ lpc = "delay"
    /\ BeginPlayer(playerIdx + 1, stage, task, outcome, called, logs, results)

\* a wait whose promise could still be resolved after its timer rejected it
waitRejected_never(i, st) == FALSE

\* withTimeout, lines 666-680: the wait of player i in stage st is over once
\* its timer rejected it; a later resolve has no effect
waitRejected(i, st) == stage[i] # st

\* the transport answers the summoner-search call of player i
\* (searchSummoner, lines 220-264; analyzePlayer, lines 684-694)
SearchResponse(i, ans) ==
    /\ lpc \in {"awaitPlayer", "delay", "finished"}
    /\ task[i].kind = "search"
    /\ ~ unresponsive[i]
    /\ LET f == task[i].fmt
       IN  IF ans \in {"error", "unparseable"} /\ f < NumFormats
           THEN \* the next encoding is tried
                /\ LobbySet(lpc, playerIdx, stage,
                            [task EXCEPT ![i] = Call("search", f + 1)],
                            outcome, called, logs, results)
                /\ UNCHANGED <<unresponsive, gap>>
           ELSE IF waitRejected(i, "searching")
           THEN \* the wait was already rejected by its timer: result dropped
                /\ LobbySet(lpc, playerIdx, stage, [task EXCEPT ![i] = NoCall],
                            outcome, called, logs, results)
                /\ UNCHANGED <<unresponsive, gap>>
           ELSE IF ans = "found"
           THEN \* stats: the first game-history call is made, new 15 s timer
                /\ LobbySet(lpc, playerIdx,
                            [stage EXCEPT ![i] = "fetchingHistory"],
                            [task EXCEPT ![i] = Call("history", 1)],
                            outcome, called,
                            [logs EXCEPT ![i] = @ \o Progress(<<"fetching">>)],
                            results)
                /\ UNCHANGED <<unresponsive, gap>>
           ELSE \* null: analyzePlayer throws 'player not found'
                AfterRejected(i, [stage EXCEPT ![i] = "failed"],
                              [task EXCEPT ![i] = NoCall],
                              [outcome EXCEPT ![i] = "notfound"], called,
                              [logs EXCEPT ![i] = @ \o Progress(<<"failed">>)],
                              results)

\* the transport answers the game-history call of player i
\* (getMatchHistory, lines 440-467; analyzePlayer, lines 695-713)
HistoryResponse(i, ans) ==
    /\ lpc \in {"awaitPlayer", "delay", "finished"}
    /\ task[i].kind = "history"
    /\ ~ unresponsive[i]
    /\ LET f == task[i].fmt
       IN  IF ans \in {"error", "empty"} /\ f < NumFormats
           THEN /\ LobbySet(lpc, playerIdx, stage,
                            [task EXCEPT ![i] = Call("history", f + 1)],
                            outcome, called, logs, results)
                /\ UNCHANGED <<unresponsive, gap>>
           ELSE IF waitRejected(i, "fetchingHistory")
           THEN /\ LobbySet(lpc, playerIdx, stage, [task EXCEPT ![i] = NoCall],
                            outcome, called, logs, results)
                /\ UNCHANGED <<unresponsive, gap>>
           ELSE AfterFulfilled(i,
                    [player |-> i, history |-> IF ans = "matches" THEN "some" ELSE "empty"],
                    [stage EXCEPT ![i] = "done"],
                    [task EXCEPT ![i] = NoCall],
                    [outcome EXCEPT ![i] = "fulfilled"], called,
                    [logs EXCEPT ![i] = @ \o Progress(<<"analyzing", "success">>)],
                    results)

\* no timer at all
TimerPending_never(i) == FALSE

\* withTimeout, lines 666-680: the 15 s timer of the wait analyzePlayer is in
TimerPending(i) ==
    /\ lpc = "awaitPlayer"
    /\ playerIdx = i
    /\ stage[i] \in {"searching", "fetchingHistory"}

\* the players whose transport answers, but too late for the 15 s timer
Slow == {j \in Players : outcome[j] = "timeout" /\ ~ unresponsive[j]}

\* the timer can beat a transport that never answers, and that of at most
\* MaxSlow players whose answers exist but come late
MayExpire(i) == IF unresponsive[i] THEN TRUE ELSE Cardinality(Slow) < MaxSlow

\* the 15 s timer fires first (lines 668-670, then 714-718)
Timeout(i) ==
    /\ TimerPending(i)
    /\ MayExpire(i)
    /\ AfterRejected(i, [stage EXCEPT ![i] = "failed"], task,
                     [outcome EXCEPT ![i] = "timeout"], called,
                     [logs EXCEPT ![i] = @ \o Progress(<<"failed">>)],
                     results)

NextLobby ==
    \/ StartLobby
    \/ DelayDone
    \/ \E i \in Players, ans \in SearchAnswers : SearchResponse(i, ans)
    \/ \E i \in Players, ans \in HistoryAnswers : HistoryResponse(i, ans)
    \/ \E i \in Players : Timeout(i)

SpecLobby == InitLobby /\ [][NextLobby]_vars

\* some pending call of a player whose transport does answer is answered
Respond ==
    \/ \E i \in Players, ans \in SearchAnswers : SearchResponse(i, ans)
    \/ \E i \in Players, ans \in HistoryAnswers : HistoryResponse(i, ans)

\* timers fire and the loop takes its own steps; a transport that is not
\* unresponsive answers each call at some moment (possibly after the timer)
SpecLobbyFair ==
    /\ SpecLobby
    /\ WF_vars(StartLobby)
    /\ WF_vars(DelayDone)
    /\ WF_vars(\E i \in Players : Timeout(i))
    /\ WF_vars(Respond)

(***************************************************************************)
(* One pipeline step, call by call: searchSummoner (lines 185-265) and     *)
(* getMatchHistory (lines 401-468).  Each tries its parameter encodings in *)
(* turn through callMCPFunction (lines 224 and 444); neither reads the     *)
(* clock, the cache or lastRequestTime.  The step may be run again for the *)
(* same identity once it has returned.                                     *)
(* A transport answer is named by the shape of its payload:                *)
(*   error         the call throws                                         *)
(*   falsy         null / undefined / empty payload                        *)
(*   direct        an object with tier, rank or level                      *)
(*   directNumberRank  such an object whose division is a number           *)
(*   table         {content:[{type:'text', text}]} whose text is a table   *)
(*                 with the identity columns and at least one row          *)
(*   tableNoRow    such a table without the columns or without rows        *)
(*   nestedObject  content or data holding an object or array              *)
(*   nestedText    content or data holding a string                        *)
(*   arrayMatches  (history) an array with matches of the player           *)
(*   tableMatches  (history) a table with rows of the player               *)
(*   tableEmpty    (history) a table with no row of the player             *)
(*   other         a truthy payload of no known shape                      *)
(***************************************************************************)
SearchShapes == {"error", "falsy", "direct", "directNumberRank", "table",
                 "tableNoRow", "nestedObject", "nestedText", "other"}

HistoryShapes == {"error", "falsy", "arrayMatches", "tableMatches",
                  "tableEmpty", "other"}

ShapesOf(op) == IF op = "search" THEN SearchShapes ELSE HistoryShapes

Outcome(tried, returns, value) ==
    [tried |-> tried, returns |-> returns, value |-> value]

\* a loop body that does not return what the table parser produced
searchOutcome_continuesAfterTable(shape) ==
    CASE shape = "direct" -> Outcome(<<"direct">>, TRUE, "stats")
      [] shape = "directNumberRank" -> Outcome(<<"direct">>, TRUE, "null")
      [] shape \in {"table", "tableNoRow"} -> Outcome(<<"direct", "table">>, FALSE, "none")
      [] shape = "nestedObject" -> Outcome(<<"direct", "table", "nested">>, TRUE, "stats")
      [] shape = "nestedText" -> Outcome(<<"direct", "table", "nested">>, TRUE, "null")
      [] shape = "other" -> Outcome(<<"direct", "table", "nested">>, FALSE, "none")
      [] OTHER -> Outcome(<<>>, FALSE, "none")

\* lines 228-250: the parser strategies tried on one answer, whether the
\* loop returns on it, and what it returns
searchOutcome(shape) ==
    CASE shape = "direct" -> Outcome(<<"direct">>, TRUE, "stats")
      [] shape = "directNumberRank" -> Outcome(<<"direct">>, TRUE, "null")
      [] shape = "table" -> Outcome(<<"direct", "table">>, TRUE, "stats")
      [] shape = "tableNoRow" -> Outcome(<<"direct", "table">>, TRUE, "null")
      [] shape = "nestedObject" -> Outcome(<<"direct", "table", "nested">>, TRUE, "stats")
      [] shape = "nestedText" -> Outcome(<<"direct", "table", "nested">>, TRUE, "null")
      [] shape = "other" -> Outcome(<<"direct", "table", "nested">>, FALSE, "none")
      [] OTHER -> Outcome(<<>>, FALSE, "none")

\* a loop that returns the empty parse of a table
historyOutcome_stopsOnEmptyTable(shape) ==
    CASE shape = "arrayMatches" -> Outcome(<<"array">>, TRUE, "matches")
      [] shape = "tableMatches" -> Outcome(<<"array", "table">>, TRUE, "matches")
      [] shape = "tableEmpty" -> Outcome(<<"array", "table">>, TRUE, "empty")
      [] shape = "other" ->
            Outcome(<<"array", "table", "content", "data", "matches">>, FALSE, "none")
      [] OTHER -> Outcome(<<>>, FALSE, "none")

\* lines 447-454 and 470-503: a non-empty parse returns, anything else goes on
historyOutcome(shape) ==
    CASE shape = "arrayMatches" -> Outcome(<<"array">>, TRUE, "matches")
      [] shape = "tableMatches" -> Outcome(<<"array", "table">>, TRUE, "matches")
      [] shape = "tableEmpty" -> Outcome(<<"array", "table">>, FALSE, "none")
      [] shape = "other" ->
            Outcome(<<"array", "table", "content", "data", "matches">>, FALSE, "none")
      [] OTHER -> Outcome(<<>>, FALSE, "none")

outcomeOf(op, shape) ==
    IF op = "search" THEN searchOutcome(shape) ELSE historyOutcome(shape)

\* searchSummoner without its outer try/catch
allFailed_rethrows(op) ==
    IF op = "search" THEN [pc |-> "thrown", ret |-> "none"]
    ELSE [pc |-> "returned", ret |-> "empty"]

\* every encoding failed: searchSummoner throws inside its try and the catch
\* returns null (lines 260-264); getMatchHistory returns [] (line 463)
allFailed(op) ==
    IF op = "search" THEN [pc |-> "returned", ret |-> "null"]
    ELSE [pc |-> "returned", ret |-> "empty"]

\* lines 224 and 444: the call made with encoding f
NewAttempt(f) == [fmt |-> f, answer |-> "pending", tried |-> <<>>]

InitStep ==
    /\ sop \in {"search", "history"}
    /\ spc = "idle"
    /\ round = 0
    /\ attempts = <<>>
    /\ answered = {}
    /\ ret = "none"
    /\ apc = "idle"
    /\ callerRegion = DefaultRegion
    /\ countParam = HistoryCount
    /\ UiIdle
    /\ responses = <<>>
    /\ playerStats = NoStats
    /\ recentMatches = <<>>
    /\ boostedFlags = NoBoostedFlags
    /\ performanceFlags = NoPerformanceFlags
    /\ riskScore = NoScore
    /\ RequestIdle
    /\ LobbyIdle

\* the operation is called (again) for the identity: the first encoding is
\* sent (lines 220-224, 440-444)
StartStep ==
    /\ spc \in {"idle", "returned"}
    /\ round < MaxRounds
    /\ round' = round + 1
    /\ answered' = answered \cup
          {attempts[k].fmt : k \in {j \in DOMAIN attempts : attempts[j].answer # "error"}}
    /\ attempts' = <<NewAttempt(1)>>
    /\ spc' = "calling"
    /\ ret' = "none"
    /\ UNCHANGED sop
    /\ UNCHANGED <<analysisVars, requestVars, lobbyVars, uiVars>>

\* the transport settles the pending call with a payload of the given shape
StepResponse(shape) ==
    /\ spc = "calling"
    /\ shape \in ShapesOf(sop)
    /\ LET k == Len(attempts)
           f == attempts[k].fmt
           o == outcomeOf(sop, shape)
           logged == [attempts EXCEPT ![k].answer = shape, ![k].tried = o.tried]
       IN  IF o.returns
           THEN /\ attempts' = logged
                /\ spc' = "returned"
                /\ ret' = o.value
           ELSE IF f < NumFormats
           THEN /\ attempts' = Append(logged, NewAttempt(f + 1))
                /\ spc' = "calling"
                /\ ret' = ret
           ELSE /\ attempts' = logged
                /\ spc' = allFailed(sop).pc
                /\ ret' = allFailed(sop).ret
    /\ UNCHANGED <<sop, round, answered>>
    /\ UNCHANGED <<analysisVars, requestVars, lobbyVars, uiVars>>

NextStep ==
    \/ StartStep
    \/ \E shape \in SearchShapes \cup HistoryShapes : StepResponse(shape)

SpecStep == InitStep /\ [][NextStep]_vars

(***************************************************************************)
(* analyzePlayer for one identity, call by call (lines 651-719): the       *)
(* search step, then the history step, each awaited under a 15 s timer,    *)
(* then the heuristics.  apc is the stage of the player; a step whose wait *)
(* timed out keeps running and its later answers are dropped.              *)
(***************************************************************************)
PipelineShapes(op) ==
    IF op = "search" THEN {"error", "other", "table", "tableNoRow"}
    ELSE {"error", "tableEmpty", "tableMatches"}

\* the call of step op made with encoding f
StepAttempt(op, f) == [op |-> op, fmt |-> f, answer |-> "pending", tried |-> <<>>]

\* what getMatchHistory resolves to when a response held matches
PipelineHistory ==
    parseMatchTable(Table(PeriodicRows(2, 1, "D")), gameName, gameTag, HistoryCount)

InitPipeline ==
    /\ apc = "pending"
    /\ sop = "none"
    /\ spc = "idle"
    /\ round = 0
    /\ attempts = <<>>
    /\ answered = {}
    /\ ret = "none"
    /\ callerRegion = DefaultRegion
    /\ countParam = HistoryCount
    /\ UiIdle
    /\ responses = <<>>
    /\ playerStats = NoStats
    /\ recentMatches = <<>>
    /\ boostedFlags = NoBoostedFlags
    /\ performanceFlags = NoPerformanceFlags
    /\ riskScore = NoScore
    /\ RequestIdle
    /\ LobbyIdle

\* lines 682-688: the first search call is made and its timer armed
BeginAnalysis ==
    /\ apc = "pending"
    /\ apc' = "searching"
    /\ sop' = "search"
    /\ spc' = "calling"
    /\ round' = 1
    /\ attempts' = <<StepAttempt("search", 1)>>
    /\ UNCHANGED <<answered, ret>>
    /\ UNCHANGED <<callerRegion, countParam, responses, playerStats, recentMatches, boostedFlags,
                   performanceFlags, riskScore>>
    /\ UNCHANGED <<requestVars, lobbyVars, uiVars>>

\* lines 690-692: searchSummoner resolved to v while analyzePlayer waits
AfterSearch(v, logged) ==
    IF v = "stats"
    THEN /\ apc' = "fetchingHistory"
         /\ playerStats' = StatsOf("GOLD")
         /\ sop' = "history"
         /\ spc' = "calling"
         /\ attempts' = Append(logged, StepAttempt("history", 1))
         /\ UNCHANGED <<recentMatches, boostedFlags, performanceFlags, riskScore>>
    ELSE /\ apc' = "failedNotFound"
         /\ spc' = "returned"
         /\ attempts' = logged
         /\ UNCHANGED <<sop, playerStats, recentMatches, boostedFlags,
                        performanceFlags, riskScore>>

\* lines 701-713: getMatchHistory resolved to v while analyzePlayer waits
AfterHistory(v, logged) ==
    LET matches == IF v = "matches" THEN PipelineHistory ELSE <<>>
    IN  /\ recentMatches' = matches
        /\ boostedFlags' = detectBoostingIndicators(matches)
        /\ performanceFlags' = analyzePerformance(Slice(matches, 0, PerformanceWindow))
        /\ riskScore' = calculateRiskScore(boostedFlags', performanceFlags', playerStats)
        /\ apc' = "done"
        /\ spc' = "returned"
        /\ attempts' = logged
        /\ UNCHANGED <<sop, playerStats>>

\* the transport settles the pending call of the running step
PipelineResponse(shape) ==
    /\ spc = "calling"
    /\ shape \in PipelineShapes(sop)
    /\ LET k == Len(attempts)
           f == attempts[k].fmt
           o == outcomeOf(sop, shape)
           logged == [attempts EXCEPT ![k].answer = shape, ![k].tried = o.tried]
           v == IF o.returns THEN o.value ELSE allFailed(sop).ret
       IN  IF ~ o.returns /\ f < NumFormats
           THEN \* the next encoding is tried
                /\ attempts' = Append(logged, StepAttempt(sop, f + 1))
                /\ UNCHANGED <<apc, sop, spc, ret>>
                /\ UNCHANGED <<playerStats, recentMatches, boostedFlags,
                               performanceFlags, riskScore>>
           ELSE /\ ret' = v
                /\ IF apc = "failedTimeout"
                   THEN \* lines 672-674: resolve on a rejected promise does nothing
                        /\ spc' = "returned"
                        /\ attempts' = logged
                        /\ UNCHANGED <<apc, sop>>
                        /\ UNCHANGED <<playerStats, recentMatches, boostedFlags,
                                       performanceFlags, riskScore>>
                   ELSE IF sop = "search" THEN AfterSearch(v, logged)
                   ELSE AfterHistory(v, logged)
    /\ UNCHANGED <<round, answered, callerRegion, countParam, responses>>
    /\ UNCHANGED <<requestVars, lobbyVars, uiVars>>

\* lines 668-670 and 714-718: the timer of the current wait fires first
PipelineTimeout ==
    /\ apc \in {"searching", "fetchingHistory"}
    /\ apc' = "failedTimeout"
    /\ UNCHANGED <<callerRegion, countParam, responses, playerStats, recentMatches, boostedFlags,
                   performanceFlags, riskScore>>
    /\ UNCHANGED <<requestVars, lobbyVars, stepVars, uiVars>>

NextPipeline ==
    \/ BeginAnalysis
    \/ \E shape \in SearchShapes \cup HistoryShapes : PipelineResponse(shape)
    \/ PipelineTimeout

SpecPipeline == InitPipeline /\ [][NextPipeline]_vars

(***************************************************************************)
(* Properties of the risk scorer (SpecScore)                               *)
(***************************************************************************)
B01(b) == IF b THEN 1 ELSE 0

AllFlagsTrue ==
    /\ boostedFlags.flashPositionChanged
    /\ boostedFlags.suspiciousWinrateSpike
    /\ boostedFlags.inconsistentPlaystyle
    /\ performanceFlags.isFeeding
    /\ performanceFlags.poorKDA
    /\ performanceFlags.lowVisionScore
    /\ performanceFlags.inconsistentCS

\* the six weights that do not depend on the flash count
OtherWeights ==
    25 * B01(boostedFlags.suspiciousWinrateSpike)
    + 15 * B01(boostedFlags.inconsistentPlaystyle)
    + 20 * B01(performanceFlags.isFeeding)
    + 15 * B01(performanceFlags.poorKDA)
    + 10 * B01(performanceFlags.lowVisionScore)
    + 10 * B01(performanceFlags.inconsistentCS)

\* C1: for every flags value with a flash count >= 0 and every tier the
\* score returned by calculateRiskScore lies in [0,100], and with all flags
\* true and flashChangeCount = 69 it is exactly 100.
C1_RiskScoreBounded ==
    apc = "scored" =>
        /\ riskScore >= 0 /\ riskScore <= 100
        /\ (AllFlagsTrue /\ boostedFlags.flashChangeCount = 69 => riskScore = 100)

C1_Witness ==
    /\ apc = "scored"
    /\ AllFlagsTrue
    /\ boostedFlags.flashChangeCount = 69
    /\ riskScore = 100

PreBonusTotal ==
    (IF boostedFlags.flashPositionChanged THEN 10 * boostedFlags.flashChangeCount ELSE 0)
    + OtherWeights

TopThreeTier == playerStats.tier \in {"MASTER", "GRANDMASTER", "CHALLENGER"}

\* C30: the +20 high-rank bonus is added exactly when the tier is MASTER,
\* GRANDMASTER or CHALLENGER and the total of all other weights is strictly
\* greater than 30; with a total of exactly 30, or with any other tier, the
\* score is min(100, total); the bonus is applied before clamping.
C30_HighRankBonus ==
    apc = "scored" =>
        /\ (TopThreeTier /\ PreBonusTotal > 30)
              => riskScore = Min(100, PreBonusTotal + 20)
        /\ (~ TopThreeTier \/ PreBonusTotal <= 30)
              => riskScore = Min(100, PreBonusTotal)

\* a MASTER player whose flags add up to exactly 30 has been scored 30
C30_Witness ==
    /\ apc = "scored"
    /\ playerStats.tier = "MASTER"
    /\ PreBonusTotal = 30
    /\ riskScore = 30

(***************************************************************************)
(* Properties of the heuristics (SpecAnalyze)                              *)
(***************************************************************************)
\* the flash slot of match i of a history, from its two spell slots
SlotAt(h, i) ==
    IF h[i].summoner1Id = 4 THEN "D"
    ELSE IF h[i].summoner2Id = 4 THEN "F" ELSE "none"

\* the positions of h that hold flash
FlashAt(h) == {i \in 1..Len(h) : SlotAt(h, i) # "none"}

\* the positions whose slot differs from the nearest preceding flash match
ChangePositions(h) ==
    {i \in FlashAt(h) :
        \E j \in FlashAt(h) :
            /\ j < i
            /\ \A k \in FlashAt(h) : ~ (j < k /\ k < i)
            /\ SlotAt(h, j) # SlotAt(h, i)}

AlternatesEveryMatch(h) ==
    /\ \A i \in 1..Len(h) : SlotAt(h, i) # "none"
    /\ \A i \in 1..(Len(h) - 1) : SlotAt(h, i) # SlotAt(h, i + 1)

ConstantSlot(h) ==
    /\ \A i \in 1..Len(h) : SlotAt(h, i) # "none"
    /\ \A i \in 1..(Len(h) - 1) : SlotAt(h, i) = SlotAt(h, i + 1)

\* C7: flashChangeCount is the number of flash matches whose slot differs
\* from the slot of the nearest preceding flash match (matches without flash
\* neither count nor reset), flashPositionChanged holds exactly when the
\* count is positive; 10 alternating matches give 9, 10 constant ones give 0.
C7_FlashChangeCount ==
    apc = "done" =>
        /\ boostedFlags.flashChangeCount = Cardinality(ChangePositions(recentMatches))
        /\ boostedFlags.flashPositionChanged = (boostedFlags.flashChangeCount > 0)
        /\ (Len(recentMatches) = 10 /\ AlternatesEveryMatch(recentMatches)
              => boostedFlags.flashChangeCount = 9)
        /\ (Len(recentMatches) = 10 /\ ConstantSlot(recentMatches)
              => boostedFlags.flashChangeCount = 0)

\* a history D, none, F: the match without flash is skipped, one change
C7_Witness ==
    /\ apc = "done"
    /\ Len(recentMatches) = 3
    /\ SlotAt(recentMatches, 1) = "D"
    /\ SlotAt(recentMatches, 2) = "none"
    /\ SlotAt(recentMatches, 3) = "F"
    /\ boostedFlags.flashChangeCount = 1
    /\ boostedFlags.flashPositionChanged

\* C8 as stated: a table of 70 matches of the requested player whose flash
\* slot alternates every 10 matches (7 segments) yields flashChangeCount = 6.
C8_SeventyMatchesSixChanges ==
    apc = "done"
    /\ (\E f \in {"D", "F"} : responses[1] = Table(PeriodicRows(70, 10, f)))
    => boostedFlags.flashChangeCount = 6

\* the exact win rates of the two windows, as wins and games
WinsIn(h) == Cardinality({i \in 1..Len(h) : h[i].win})

\* (wins1/n1 - wins2/n2) * 100 > 30 over the rationals, an empty window being 0%
ExactSpike(h) ==
    LET r == Slice(h, 0, 20)
        o == Slice(h, 20, 50)
        n1 == Max(1, Len(r))
        n2 == Max(1, Len(o))
    IN  100 * WinsIn(r) * n2 - 100 * WinsIn(o) * n1 > 30 * n1 * n2

\* C10 as stated: suspiciousWinrateSpike is true exactly when the win rate
\* of matches 1-20 minus that of matches 21-50 is strictly greater than 30
\* points; a difference of exactly 30 yields false.
C10_SpikeIffStrictlyAbove30 ==
    apc = "done" =>
        (boostedFlags.suspiciousWinrateSpike <=> ExactSpike(recentMatches))

\* the history has w wins among its 20 most recent matches and 15 among
\* matches 21-50, of 50 matches
FiftyWith(w) ==
    /\ Len(recentMatches) = 50
    /\ WinsIn(Slice(recentMatches, 0, 20)) = w
    /\ WinsIn(Slice(recentMatches, 20, 50)) = 15

\* C29 as stated: with a win rate of 80% over the most recent 20 matches (16
\* wins) and 50% over matches 21-50 (15 wins of 30), suspiciousWinrateSpike
\* is true.
C29_EightyVersusFiftyIsSpike ==
    (apc = "done" /\ FiftyWith(16)) => boostedFlags.suspiciousWinrateSpike

\* C29 amended: with 80% over the most recent 20 matches and 50% over matches
\* 21-50 the difference is exactly 30 points and suspiciousWinrateSpike is
\* false; with 85% over the most recent 20 (17 wins) it is true.
C29_EightyVersusFiftyIsNoSpike ==
    apc = "done" =>
        /\ FiftyWith(16) => ~ boostedFlags.suspiciousWinrateSpike
        /\ FiftyWith(17) => boostedFlags.suspiciousWinrateSpike

\* the analysis of a history with 16 wins in matches 1-20 and 15 in matches
\* 21-50 is done
C29_Witness ==
    /\ apc = "done"
    /\ FiftyWith(16)
    /\ ~ boostedFlags.suspiciousWinrateSpike

(***************************************************************************)
(* Properties of the Transport/Cache layer (SpecRequest)                   *)
(***************************************************************************)
Issued(i) == calls[i].pc # "idle"

SameKey(a, b) == Issued(a) /\ Issued(b) /\ calls[a].key = calls[b].key

\* the calls a and b are the only ones issued for their key
OnlyTwo(a, b) == \A c \in CallIds \ {a, b} : ~ SameKey(a, c)

\* call a was in progress at no moment at which another call for the same
\* key was in progress
NoOverlap(a) ==
    \A c \in CallIds \ {a} :
        SameKey(a, c) => c \notin calls[a].activeAtStart /\ a \notin calls[c].activeAtStart

ServedAfter(a, b) ==
    /\ a # b /\ SameKey(a, b)
    /\ a \in calls[b].doneAtStart
    /\ calls[a].pc = "returned" /\ calls[a].invoked
    /\ NoOverlap(a)
    /\ calls[b].now - calls[a].now < cacheTimeout
    /\ calls[b].pc \in {"inflight", "returned", "thrown"}

C4_MinSpacing ==
    \A n \in 1..(Len(invocations) - 1) :
        invocations[n + 1].at - invocations[n].at >= rateLimitDelay

\* call i returns in this step with a stored payload, without an invocation
ServedFromCache(i) ==
    /\ calls[i].pc # "returned"
    /\ calls'[i].pc = "returned"
    /\ ~ calls'[i].invoked

\* C14: a stored payload is returned without a transport invocation only
\* if less than the TTL has elapsed between the moment it was stored and the
\* moment it is returned: an entry at least 5 minutes old is never served
C14_ServedOnlyWhileFresh ==
    [][\A i \in CallIds :
          ServedFromCache(i) =>
              clock' - cache[calls'[i].key].storedAt < cacheTimeout]_vars

(***************************************************************************)
(* Properties of the lobby loops (SpecLobby, SpecLobbyFair)                *)
(***************************************************************************)
ResultsOf(i) == {k \in DOMAIN results : results[k].player = i}

Failing == {i \in Players : outcome[i] \in {"timeout", "notfound"}}

\* C2: whatever subset of the identities fails (timeout, every search call
\* erroring, not found), the lobby loop never leaves through a throw, and
\* when it has finished the results hold exactly one entry for each identity
\* that did not fail and none for a failing one; in particular when only
\* identity #3 timed out, all identities but one have an entry
C2_NeverThrowsOneResultPerSuccess ==
    /\ lpc \in {"idle", "awaitPlayer", "delay", "finished"}
    /\ \A i \in Players :
          Cardinality(ResultsOf(i)) <= IF outcome[i] = "fulfilled" THEN 1 ELSE 0
    /\ lpc = "finished" =>
          /\ \A i \in Players : Terminal(i)
          /\ \A i \in Players :
                Cardinality(ResultsOf(i)) = IF i \in Failing THEN 0 ELSE 1
          /\ Len(results) = NumPlayers - Cardinality(Failing)
          /\ (outcome[3] = "timeout" /\ Failing = {3}) =>
                Len(results) = NumPlayers - 1

C2_Witness ==
    /\ lpc = "finished"
    /\ outcome[3] = "timeout"
    /\ \A i \in Players \ {3} : outcome[i] = "fulfilled"
    /\ Len(results) = NumPlayers - 1
    /\ ResultsOf(3) = {}

\* C5: a player whose remote call never responds is failed by its own 15 s
\* timer and by nothing else; from then on every identity after it is still
\* analysed and the whole batch completes
C5_StuckPlayerTimesOutBatchCompletes ==
    /\ [](\A i \in Players :
            (unresponsive[i] /\ Terminal(i)) =>
                (stage[i] = "failed" /\ outcome[i] = "timeout"))
    /\ (\E i \in Players : called[i] /\ unresponsive[i]) ~>
          /\ lpc = "finished"
          /\ \A i \in Players :
                /\ called[i]
                /\ Terminal(i)
                /\ unresponsive[i] => outcome[i] = "timeout"

C5_Witness ==
    /\ lpc = "finished"
    /\ \E i \in Players :
          /\ i < NumPlayers
          /\ unresponsive[i]
          /\ outcome[i] = "timeout"
          /\ outcome[i + 1] = "fulfilled"
          /\ \A j \in Players : j > i => called[j] /\ Terminal(j)

Touched(i) ==
    \/ called[i]
    \/ logs[i] # <<>>
    \/ stage[i] # "pending"
    \/ task[i] # NoCall

Recent == Slice(recentMatches, 0, PerformanceWindow)

RECURSIVE SeqProduct(_)
SeqProduct(s) == IF s = <<>> THEN 1 ELSE Head(s) * SeqProduct(Tail(s))

KdaDen(m) == IF m.deaths = 0 THEN 1 ELSE m.deaths

\* the mean of (kills + assists) / deaths over ms is below 1, exactly
MeanKdaBelowOne(ms) ==
    LET n == Len(ms)
        P == SeqProduct([i \in 1..n |-> KdaDen(ms[i])])
    IN  SeqSum([i \in 1..n |->
                  (ms[i].kills + ms[i].assists) * (P \div KdaDen(ms[i]))]) < n * P

\* the population variance of the minions killed over ms exceeds t, exactly
CsVarianceAbove(ms, t) ==
    LET n == Len(ms)
        S == SeqSum([i \in 1..n |-> ms[i].totalMinionsKilled])
        Q == SeqSum([i \in 1..n |-> ms[i].totalMinionsKilled * ms[i].totalMinionsKilled])
    IN  n * Q - S * S > t * n * n

\* C11: for a non-empty list of n <= 5 most recent matches, isFeeding iff
\* sum(deaths) > 10 n, poorKDA iff the mean KDA is below 1, lowVisionScore
\* iff sum(visionScore) < 15 n, inconsistentCS iff the population variance
\* of totalMinionsKilled exceeds 2500; a mean of 12 deaths sets isFeeding
\* and adds 20 to the sum before the clamp
C11_PerformanceThresholds ==
    (apc = "done" /\ Len(Recent) > 0) =>
        LET n == Len(Recent)
            deaths == SeqSum([i \in 1..n |-> Recent[i].deaths])
            vision == SeqSum([i \in 1..n |-> Recent[i].visionScore])
        IN  /\ n <= 5
            /\ performanceFlags.isFeeding <=> deaths > 10 * n
            /\ performanceFlags.poorKDA <=> MeanKdaBelowOne(Recent)
            /\ performanceFlags.lowVisionScore <=> vision < 15 * n
            /\ performanceFlags.inconsistentCS <=> CsVarianceAbove(Recent, 2500)
            /\ deaths = 12 * n =>
                  /\ performanceFlags.isFeeding
                  /\ playerStats.tier \notin HighRanks =>
                        rawRiskScore(boostedFlags, performanceFlags, playerStats)
                        = 20 + rawRiskScore(boostedFlags,
                                   [performanceFlags EXCEPT !.isFeeding = FALSE],
                                   playerStats)

\* C12: analysing an empty match history yields all four PerformanceFlags
\* false, flashPositionChanged false, flashChangeCount 0, no win-rate spike,
\* no inconsistent playstyle, and risk score 0 whatever the tier
C12_EmptyHistoryScoresZero ==
    (apc = "done" /\ recentMatches = <<>>) =>
        /\ ~ performanceFlags.isFeeding
        /\ ~ performanceFlags.poorKDA
        /\ ~ performanceFlags.lowVisionScore
        /\ ~ performanceFlags.inconsistentCS
        /\ ~ boostedFlags.flashPositionChanged
        /\ boostedFlags.flashChangeCount = 0
        /\ ~ boostedFlags.suspiciousWinrateSpike
        /\ ~ boostedFlags.inconsistentPlaystyle
        /\ riskScore = 0

C12_Witness ==
    /\ apc = "done"
    /\ recentMatches = <<>>
    /\ playerStats.tier = "CHALLENGER"
    /\ riskScore = 0
    /\ performanceFlags = NoPerformanceFlags

(***************************************************************************)
(* Properties of searchSummoner and getMatchHistory (SpecStep)             *)
(***************************************************************************)
\* C13: every remote call of a player's analysis goes through makeRequest,
\* so when the same identity is analysed again within the TTL no remote
\* call is made for an encoding whose response an earlier run received
\* (and makeRequest would have stored)
C13_NoRepeatedRemoteCall ==
    \A k \in DOMAIN attempts : attempts[k].fmt \notin answered

StatsShapes == {"direct", "table", "nestedObject"}

\* C15: searchSummoner sends its encodings in the fixed order 1, 2, 3, 4,
\* goes on to encoding k+1 only when encoding k errored or gave a response
\* from which no PlayerStats was parsed, and makes no further call once an
\* encoding has yielded a PlayerStats
C15_EncodingsInOrderFirstStatsWins ==
    sop = "search" =>
        /\ Len(attempts) <= NumFormats
        /\ \A k \in DOMAIN attempts :
              /\ attempts[k].fmt = k
              /\ k < Len(attempts) => attempts[k].answer \notin StatsShapes \cup {"pending"}
              /\ attempts[k].answer \in StatsShapes =>
                    (k = Len(attempts) /\ spc = "returned" /\ ret = "stats")
        /\ (spc = "returned" /\ ret = "stats") =>
              attempts[Len(attempts)].answer \in StatsShapes

C15_Witness ==
    /\ sop = "search"
    /\ spc = "returned"
    /\ ret = "stats"
    /\ Len(attempts) = 3
    /\ attempts[1].answer = "error"
    /\ attempts[2].answer = "other"
    /\ attempts[3].answer = "table"

AllStrategies == <<"direct", "table", "nested">>

\* C16: searchSummoner returns null only after all four encodings were
\* attempted and, on each response received, the strategies direct, table,
\* nested were applied in that order, a strategy yielding null being
\* followed by the next one
C16_NullOnlyAfterEverythingTried ==
    (sop = "search" /\ spc = "returned" /\ ret = "null") =>
        /\ Len(attempts) = NumFormats
        /\ \A k \in DOMAIN attempts :
              attempts[k].answer \notin {"error", "falsy"} =>
                  attempts[k].tried = AllStrategies

\* C17: whatever the payload shapes and transport outcomes, searchSummoner
\* resolves to a PlayerStats or null and getMatchHistory to a (possibly
\* empty) match sequence; neither rejects
C17_StepNeverRejects ==
    /\ spc \in {"idle", "calling", "returned"}
    /\ spc = "returned" =>
          /\ sop = "search" => ret \in {"stats", "null"}
          /\ sop = "history" => ret \in {"matches", "empty"}

C17_Witness ==
    /\ sop = "search"
    /\ spc = "returned"
    /\ ret = "null"
    /\ Len(attempts) = NumFormats
    /\ \A k \in DOMAIN attempts : attempts[k].answer = "error"

\* the progress events analyzePlayer emits (lines 683, 694, 701, 706, 716)
StageEvents == <<"searching", "fetching", "analyzing", "success">>

EventsOf(i) ==
    SelectSeq(logs[i], LAMBDA e : e \in {"searching", "fetching", "analyzing",
                                          "success", "failed"})

\* the events a player in stage st has emitted, given the stage it failed from
EventsUpTo(n) == SubSeq(StageEvents, 1, n)

StageLog(i) ==
    CASE stage[i] = "pending" -> EventsOf(i) = <<>>
      [] stage[i] = "searching" -> EventsOf(i) = EventsUpTo(1)
      [] stage[i] = "fetchingHistory" -> EventsOf(i) = EventsUpTo(2)
      [] stage[i] = "done" -> EventsOf(i) = StageEvents
      [] stage[i] = "failed" ->
            \E n \in 1..3 : EventsOf(i) = Append(EventsUpTo(n), "failed")
      [] OTHER -> FALSE

\* the edges of pending -> searching -> fetchingHistory -> analyzing -> done,
\* analyzing being passed within the step that ends in done, and failed
\* entered from a stage that is not terminal
StageEdge(from, to) ==
    \/ from = "pending" /\ to = "searching"
    \/ from = "searching" /\ to = "fetchingHistory"
    \/ from = "fetchingHistory" /\ to = "done"
    \/ from \notin {"done", "failed"} /\ to = "failed"

StageStep(i) ==
    /\ stage'[i] # stage[i] => StageEdge(stage[i], stage'[i])
    /\ Terminal(i) =>
          /\ stage'[i] = stage[i]
          /\ EventsOf(i)' = EventsOf(i)
          /\ outcome'[i] = outcome[i]
          /\ task[i] = NoCall => task'[i] = NoCall
          /\ ResultsOf(i)' = ResultsOf(i)

\* C20: for each player the stages follow pending -> searching ->
\* fetchingHistory -> analyzing -> done | failed: the progress events are
\* emitted in that order, none repeated and none skipped on the way to done;
\* failed is entered only from a stage that is not terminal; done and failed
\* are absorbing, the player being neither retried nor re-entered.
C20_StagesInOrderTerminalAbsorbing ==
    /\ [](\A i \in Players : driver = "component" => StageLog(i))
    /\ [][\A i \in Players : StageStep(i)]_vars

\* the component's loop has seen a player through every stage to done, one
\* fail while searching and one fail while fetching the history, and a late
\* answer for a failed player has been dropped
C20_Witness ==
    /\ driver = "component"
    /\ \E i, j, k \in Players :
          /\ stage[i] = "done" /\ EventsOf(i) = StageEvents
          /\ stage[j] = "failed" /\ EventsOf(j) = <<"searching", "failed">>
          /\ stage[k] = "failed" /\ EventsOf(k) = <<"searching", "fetching", "failed">>
          /\ outcome[k] = "timeout" /\ ~ unresponsive[k] /\ task[k] = NoCall

\* the failure entries of player i in the keyed stream: the line analyzePlayer
\* emits from its catch and the line the component's catch pushes
FailureEntries(i) == SelectSeq(logs[i], LAMBDA e : e \in {"failed", "error"})

\* C21 as stated: with a progress stream, each failed identity has exactly
\* one failure entry in the stream and each successful identity has none.
C21_OneFailureEntryPerFailedIdentity ==
    driver = "component" =>
        \A i \in Players :
            /\ i \in Failing => Len(FailureEntries(i)) = 1
            /\ outcome[i] = "fulfilled" => Len(FailureEntries(i)) = 0

\* C21 amended: with a progress stream, each failed identity has exactly two
\* failure entries, the one analyzePlayer emits through the callback followed
\* by the one the component's catch pushes, and each successful identity has
\* none.
C21_TwoFailureEntriesPerFailedIdentity ==
    driver = "component" =>
        \A i \in Players :
            /\ i \in Failing => FailureEntries(i) = <<"failed", "error">>
            /\ outcome[i] = "fulfilled" => FailureEntries(i) = <<>>

\* the component's loop has finished a lobby in which identity 3 timed out
\* and the others succeeded
C21_Witness ==
    /\ driver = "component"
    /\ lpc = "finished"
    /\ outcome[3] = "timeout"
    /\ FailureEntries(3) = <<"failed", "error">>
    /\ \A i \in Players \ {3} : outcome[i] = "fulfilled" /\ FailureEntries(i) = <<>>

\* C22: between the end of one player's analysis and the start of the next
\* player's analysis a delay equal to the transport minimum spacing (1 s) has
\* elapsed, whether the earlier player succeeded or failed.
C22_FixedDelayBetweenPlayers ==
    \A i \in Players : (i > 1 /\ called[i]) => gap[i] = rateLimitDelay

(***************************************************************************)
(* Properties of analyzePlayer, call by call (SpecPipeline)                *)
(***************************************************************************)
AttemptsOf(op) == SelectSeq(attempts, LAMBDA a : a.op = op)

\* every encoding of step op was called and every call failed in transport
TransportFailedThroughout(op) ==
    /\ Len(AttemptsOf(op)) = NumFormats
    /\ \A k \in 1..NumFormats : AttemptsOf(op)[k].answer = "error"

PlayerFailed == apc \in {"failedTimeout", "failedNotFound"}

ResultEmitted == apc = "done" /\ riskScore # NoScore

\* C18: when every attempt of a step of a player (the profile search or the
\* match-history fetch) failed in transport, the player ends failed and no
\* AnalysisResult is emitted for them.
C18_TransportFailureFailsPlayer ==
    \A op \in {"search", "history"} :
        TransportFailedThroughout(op) => PlayerFailed /\ ~ ResultEmitted

\* what the step op resolved to, for a step that resolved
ProfileEmpty == sop = "search" /\ spc = "returned" /\ ret = "null"

HistoryEmpty == sop = "history" /\ spc = "returned" /\ ret = "empty"

StepTimedOut == apc = "failedTimeout"

TransportErrored ==
    \E op \in {"search", "history"} : TransportFailedThroughout(op)

\* C19: a player whose analysis has ended is failed exactly when a step timed
\* out, the transport errored, or both the summoner lookup and the match
\* history came back empty; a player for whom only one of the two is empty
\* yields an AnalysisResult.
C19_FailedExactlyOnTimeoutErrorOrBothEmpty ==
    (PlayerFailed \/ apc = "done") =>
        /\ PlayerFailed <=>
               (StepTimedOut \/ TransportErrored \/ (ProfileEmpty /\ HistoryEmpty))
        /\ (~ StepTimedOut /\ ~ TransportErrored /\ (ProfileEmpty # HistoryEmpty))
               => ResultEmitted

(***************************************************************************)
(* Properties of the match parsers (SpecParse)                             *)
(***************************************************************************)
\* the entries of the parsed answer, an array's elements or a table's rows
ParsedEntries ==
    IF responses[1].kind = "array" THEN responses[1].entries ELSE responses[1].rows

\* the participant spells the requested identity, letter case aside
NamesRequested(p) ==
    /\ toLowerCase(p.summoner.game_name) = toLowerCase(gameName)
    /\ toLowerCase(p.summoner.tagline) = toLowerCase(gameTag)

\* record rec carries the figures of participant p
TakenFrom(rec, p) ==
    /\ rec.kills = p.stats.kill
    /\ rec.deaths = p.stats.death
    /\ rec.assists = p.stats.assist
    /\ rec.visionScore = p.stats.vision_score
    /\ rec.summoner1Id = p.spells[1]

\* record rec was built from a participant of entry e that names the
\* requested identity
FromRequestedParticipant(rec, e) ==
    \E j \in DOMAIN e.participants :
        NamesRequested(e.participants[j]) /\ TakenFrom(rec, e.participants[j])

\* C23 as stated: every record emitted for an entry that carries a
\* participant list is built from the participant whose game_name and tagline
\* equal the requested identity case-insensitively; an entry none of whose
\* participants matches contributes no record.
C23_RecordsOnlyFromMatchingParticipant ==
    apc = "parsed" =>
        \A k \in DOMAIN recentMatches :
            LET e == ParsedEntries[recentMatches[k].matchId]
            IN  e.participants # <<>> => FromRequestedParticipant(recentMatches[k], e)

\* C23 amended: the same for every table row and for every array entry that
\* has no kills and deaths of its own; an array entry that has them is
\* emitted from its own fields whatever its participant list holds.
C23_RecordsFromMatchingParticipantOrOwnFields ==
    apc = "parsed" =>
        \A k \in DOMAIN recentMatches :
            LET e == ParsedEntries[recentMatches[k].matchId]
            IN  IF responses[1].kind = "array" /\ e.hasStats
                THEN /\ recentMatches[k].kills = e.own.kills
                     /\ recentMatches[k].deaths = e.own.deaths
                ELSE FromRequestedParticipant(recentMatches[k], e)

\* an answer whose first entry lists only players that share the name or the
\* tag and whose second lists the identity in capitals has been parsed: the
\* only record is the one of the second entry
C23_Witness ==
    /\ apc = "parsed"
    /\ Len(ParsedEntries) = 2
    /\ ParsedEntries[1].participants = ParticipantsOf("sameName")
    /\ ParsedEntries[2].participants = ParticipantsOf("meUpper")
    /\ ~ ParsedEntries[1].hasStats /\ ~ ParsedEntries[2].hasStats
    /\ Len(recentMatches) = 1
    /\ recentMatches[1].matchId = 2
    /\ recentMatches[1].kills = DeathlessStats.kill

\* line 709: the matches analyzePlayer puts in its result
DisplayedMatches == Slice(recentMatches, 0, 10)

\* C24: the match sequence of an AnalysisResult is ordered most-recent-first
\* (non-increasing gameCreation), in whatever order the upstream entries come.
C24_MatchesMostRecentFirst ==
    apc = "parsed" =>
        \A i, j \in DOMAIN DisplayedMatches :
            i < j => DisplayedMatches[i].gameCreation >= DisplayedMatches[j].gameCreation

\* the ratio r is the number k
RatioIs(r, k) == r.den # 0 /\ r.num = k * r.den

\* the kda of record rec is kills + assists when it has no death and
\* (kills + assists) / deaths otherwise
KdaOfOwnFigures(rec) ==
    IF rec.deaths = 0 THEN RatioIs(rec.kda, rec.kills + rec.assists)
    ELSE rec.kda.den # 0 /\ rec.kda.num * rec.deaths = (rec.kills + rec.assists) * rec.kda.den

\* C28: calculateKDA(kills, deaths, assists) is kills + assists when deaths is
\* 0 and (kills + assists) / deaths otherwise, so kda(5,0,3) = 8 and
\* kda(5,2,3) = 4, and the kda of every parsed MatchRecord is calculateKDA of
\* its own kills, deaths and assists.
C28_KdaOfEveryRecord ==
    /\ RatioIs(calculateKDA(5, 0, 3), 8)
    /\ RatioIs(calculateKDA(5, 2, 3), 4)
    /\ \A k \in DOMAIN recentMatches : KdaOfOwnFigures(recentMatches[k])

\* an answer with a deathless 5/0/3 game and a 5/2/3 game of the player, and
\* a flat entry, has been parsed
C28_Witness ==
    /\ apc = "parsed"
    /\ \E i, j \in DOMAIN recentMatches :
          /\ recentMatches[i].kills = 5 /\ recentMatches[i].deaths = 0
          /\ recentMatches[i].assists = 3 /\ RatioIs(recentMatches[i].kda, 8)
          /\ recentMatches[j].kills = 5 /\ recentMatches[j].deaths = 2
          /\ recentMatches[j].assists = 3 /\ RatioIs(recentMatches[j].kda, 4)

\* record rec was built from the upstream entry at position pos
BuiltFromEntryAt(rec, pos) ==
    /\ pos \in DOMAIN ParsedEntries
    /\ rec.matchId = ParsedEntries[pos].id
    /\ rec.gameCreation = ParsedEntries[pos].created_at

\* C32: the match sequence built from a payload is an order-preserving
\* subsequence of the first `count` upstream entries: it holds at most count
\* records, each record comes from an entry at a position up to count, and
\* the records follow each other in the order of their entries; an entry
\* past position count contributes nothing, also when earlier entries were
\* skipped.
C32_SubsequenceOfFirstCount ==
    apc = "parsed" =>
        /\ Len(recentMatches) <= countParam
        /\ \E pos \in [DOMAIN recentMatches -> 1..countParam] :
              /\ \A k \in DOMAIN recentMatches : BuiltFromEntryAt(recentMatches[k], pos[k])
              /\ \A j, k \in DOMAIN recentMatches : j < k => pos[j] < pos[k]

\* with count 1, an answer whose first entry does not list the identity and
\* whose second entry does was parsed to no record at all
C32_Witness ==
    /\ apc = "parsed"
    /\ countParam = 1
    /\ Len(ParsedEntries) = 2
    /\ ~ ParsedEntries[1].hasStats
    /\ \A j \in DOMAIN ParsedEntries[1].participants :
          ~ NamesRequested(ParsedEntries[1].participants[j])
    /\ \E j \in DOMAIN ParsedEntries[2].participants :
          NamesRequested(ParsedEntries[2].participants[j])
    /\ recentMatches = <<>>

(***************************************************************************)
(* Properties of the summoner parsers (SpecSummoner)                       *)
(***************************************************************************)
\* the object of the answer that carries tier, rank and division
UpstreamObject ==
    CASE responses[1].kind = "nested" -> responses[1].content
      [] responses[1].kind = "summonerTable" /\ responses[1].rows # <<>> ->
            responses[1].rows[1]
      [] OTHER -> responses[1]

\* the tier string of the answer says "", NA or NONE in some letter case
SaysNoTier ==
    /\ UpstreamObject.tier.type = "string"
    /\ toLowerCase(UpstreamObject.tier.str) \in {"", "na", "none"}

\* C25: every PlayerStats searchSummoner returns has a tier that is UNRANKED
\* or one of the ten rank tiers, whatever tier or rank string the answer
\* carries, and the tier strings "", NA and NONE in any letter case become
\* UNRANKED.
C25_TierInClosedSet ==
    apc = "found" =>
        /\ playerStats.tier \in Tiers
        /\ SaysNoTier => playerStats.tier = "UNRANKED"

\* the division of the answer is the number n
DivisionIs(n) == UpstreamObject.division = Num(n)

RomanNumeral == <<"I", "II", "III", "IV">>

\* C26: a numeric division 1, 2, 3 or 4 in the answer is reported as I, II,
\* III or IV in PlayerStats.rank on the direct, the table and the nested
\* parser path.
C26_NumericDivisionAsRoman ==
    apc \in {"found", "failed"} =>
        \A n \in 1..4 :
            DivisionIs(n) => apc = "found" /\ playerStats.rank = RomanNumeral[n]

\* C27: the region reported in PlayerStats.region is the normalization of the
\* region the caller supplied (a value denoting one of the sixteen slugs is
\* mapped to it, any other value becomes na) and is a member of the closed
\* set of slugs.
C27_RegionIsNormalizedCallerRegion ==
    apc = "found" =>
        /\ playerStats.region = mapRegion(callerRegion)
        /\ playerStats.region \in Slugs

(***************************************************************************)
(* One LobbyAnalysis component (LobbyAnalysis.svelte lines 11-150).        *)
(* JavaScript runs one handler at a time: a handler runs to its first      *)
(* await, and a continuation runs to the next one.  An assignment to a     *)
(* variable the reactive block reads (players, autoAnalyze, isRunning,     *)
(* isLoading, lastAttemptedKey) that is made outside the block schedules   *)
(* the block for the flush that follows the handler, before any other      *)
(* event is delivered; assignments the block makes while it runs schedule  *)
(* nothing.  The block first runs when the component is created, before    *)
(* onMount.                                                                *)
(***************************************************************************)
Identity(name, tag) == [gameName |-> name, gameTag |-> tag]

\* the lobbies the parent view hands down: a lobby, the same lobby spelled
\* and ordered differently, another lobby, and none
LobbyOne == <<Identity("Faker", "KR1"), Identity("Other", "EUW")>>

LobbyOneRespelled == <<Identity("other", "euw"), Identity("faker", "kr1")>>

LobbyTwo == <<Identity("Other", "EUW")>>

Lobbies == {<<>>, LobbyOne, LobbyOneRespelled, LobbyTwo}

\* lastAttemptedKey = null (line 23)
NullKey == [isNull |-> TRUE, ids |-> {}]

\* lines 43-46: the lower-cased name#tag strings, sorted and joined; the
\* joined string of two lobbies is the same exactly when they hold the same
\* lower-cased identities, which is what the set of them records
lobbyKey(ps) ==
    [isNull |-> FALSE,
     ids |-> {<<toLowerCase(ps[i].gameName), toLowerCase(ps[i].gameTag)>> : i \in DOMAIN ps}]

\* the locals of the component a handler reads and writes
Locals(running, loading, last, lps) ==
    [isRunning |-> running, isLoading |-> loading, lastAttemptedKey |-> last, loops |-> lps]

\* line 68: the loop iterates the array players held when it was entered;
\* `by` names the trigger: the reactive block (when the component is created,
\* on a prop change, after a click, after a loop has ended), onMount, a button
NewLoop(ps, by) == [lobby |-> ps, idx |-> 1, pc |-> "await", by |-> by, rejected |-> 0]

\* an analyzePlayers without the isRunning guard
analyzePlayers_unguarded(ps, c, by) ==
    IF Len(ps) = 0 THEN c
    ELSE [c EXCEPT !.isRunning = TRUE, !.isLoading = TRUE,
                   !.loops = Append(c.loops, NewLoop(ps, by))]

\* lines 53-77: analyzePlayers up to its first await
analyzePlayers(ps, c, by) ==
    IF Len(ps) = 0 \/ c.isRunning THEN c
    ELSE [c EXCEPT !.isRunning = TRUE, !.isLoading = TRUE,
                   !.loops = Append(c.loops, NewLoop(ps, by))]

\* a block that does not compare the key with the last attempted one
reactiveBlock_anyKey(ps, auto, c, by) ==
    LET key == lobbyKey(ps)
    IN  IF Len(ps) > 0 /\ auto /\ ~ c.isRunning /\ ~ c.isLoading /\ key.ids # {}
        THEN analyzePlayers(ps, [c EXCEPT !.lastAttemptedKey = key], by)
        ELSE c

\* lines 42-51: the reactive block
reactiveBlock(ps, auto, c, by) ==
    LET key == lobbyKey(ps)
    IN  IF /\ Len(ps) > 0 /\ auto /\ ~ c.isRunning /\ ~ c.isLoading
           /\ key.ids # {} /\ key # c.lastAttemptedKey
        THEN analyzePlayers(ps, [c EXCEPT !.lastAttemptedKey = key], by)
        ELSE c

Current == Locals(isRunning, isLoading, lastAttemptedKey, loops)

\* the handler leaves the locals as c
SetLocals(c) ==
    /\ isRunning' = c.isRunning
    /\ isLoading' = c.isLoading
    /\ lastAttemptedKey' = c.lastAttemptedKey
    /\ loops' = c.loops

NotUi == <<analysisVars, requestVars, lobbyVars, stepVars>>

InitComponent ==
    /\ cpc = "created"
    /\ players \in Lobbies
    /\ autoAnalyze \in BOOLEAN
    /\ isRunning = FALSE
    /\ isLoading = FALSE
    /\ lastAttemptedKey = NullKey
    /\ loops = <<>>
    /\ uiEvents = 0
    /\ config = [loaded |-> FALSE, autoSelectIvern |-> FALSE, autoLockIvern |-> FALSE]
    /\ ivernEnabled = FALSE
    /\ autoLock = TRUE
    /\ monitors = <<>>
    /\ resuming = 0
    /\ sent = {}
    /\ apc = "idle"
    /\ callerRegion = DefaultRegion
    /\ countParam = HistoryCount
    /\ responses = <<>>
    /\ playerStats = NoStats
    /\ recentMatches = <<>>
    /\ boostedFlags = NoBoostedFlags
    /\ performanceFlags = NoPerformanceFlags
    /\ riskScore = NoScore
    /\ RequestIdle
    /\ LobbyIdle
    /\ StepIdle

\* the component is created: the reactive block runs for the first time
RunBlockOnCreate ==
    /\ cpc = "created"
    /\ cpc' = "initialized"
    /\ SetLocals(reactiveBlock(players, autoAnalyze, Current, "blockOnCreate"))
    /\ UNCHANGED <<players, autoAnalyze, uiEvents, ivernVars>>
    /\ UNCHANGED NotUi

\* lines 35-39
OnMount ==
    /\ cpc = "initialized"
    /\ cpc' = "mounted"
    /\ SetLocals(IF autoAnalyze /\ Len(players) > 0
                 THEN analyzePlayers(players, Current, "mount")
                 ELSE Current)
    /\ UNCHANGED <<players, autoAnalyze, uiEvents, ivernVars>>
    /\ UNCHANGED NotUi

\* the parent view assigns the players prop (reveal.svelte lines 327 and
\* 347, handed down at 432), possibly an array of the same identities; the
\* reactive block runs in the flush
PlayersChange(ps) ==
    /\ cpc = "mounted"
    /\ uiEvents < MaxUiEvents
    /\ uiEvents' = uiEvents + 1
    /\ players' = ps
    /\ SetLocals(reactiveBlock(ps, autoAnalyze, Current, "blockOnChange"))
    /\ UNCHANGED <<cpc, autoAnalyze, ivernVars>>
    /\ UNCHANGED NotUi

\* the Refresh or the Analyze Lobby button (lines 148-150, 185, 197): when
\* analyzePlayers sets isRunning the block runs in the flush and finds it set
Click ==
    /\ cpc = "mounted"
    /\ uiEvents < MaxUiEvents
    /\ uiEvents' = uiEvents + 1
    /\ LET c == analyzePlayers(players, Current, "button")
       IN  SetLocals(IF c = Current THEN c
                     ELSE reactiveBlock(players, autoAnalyze, c, "blockOnClick"))
    /\ UNCHANGED <<cpc, players, autoAnalyze, ivernVars>>
    /\ UNCHANGED NotUi

\* lines 77-123: analyzePlayer settles for the player loop l is at; a
\* rejection, or a throw while the result is logged, ends in the catch of
\* line 103; either way the loop goes on to its delay (line 126). An await
\* resumes in a later task than the one that creates and mounts the component
PlayerSettles(l, fulfilled) ==
    /\ cpc = "mounted"
    /\ l \in DOMAIN loops
    /\ loops[l].pc = "await"
    /\ loops' = [loops EXCEPT ![l].pc = "delay",
                              ![l].rejected = IF fulfilled THEN @ ELSE @ + 1]
    /\ UNCHANGED <<cpc, players, autoAnalyze, isRunning, isLoading, lastAttemptedKey,
                   uiEvents, ivernVars>>
    /\ UNCHANGED NotUi

\* line 126 onwards: the delay is over; the loop takes its next player, or
\* ends (129-134): the finally clears isLoading and isRunning and the
\* reactive block runs in the flush
DelayElapsed(l) ==
    /\ cpc = "mounted"
    /\ l \in DOMAIN loops
    /\ loops[l].pc = "delay"
    /\ IF loops[l].idx < Len(loops[l].lobby)
       THEN /\ loops' = [loops EXCEPT ![l].idx = @ + 1, ![l].pc = "await"]
            /\ UNCHANGED <<isRunning, isLoading, lastAttemptedKey>>
       ELSE SetLocals(reactiveBlock(players, autoAnalyze,
                          Locals(FALSE, FALSE, lastAttemptedKey,
                                 [loops EXCEPT ![l].pc = "ended"]),
                          "blockAfterLoop"))
    /\ UNCHANGED <<cpc, players, autoAnalyze, uiEvents, ivernVars>>
    /\ UNCHANGED NotUi

\* the loops a component can have entered: one when it is created or
\* mounted, one more with each prop change or click
LoopIds == 1..(MaxUiEvents + 2)

NextComponent ==
    \/ RunBlockOnCreate
    \/ OnMount
    \/ \E ps \in Lobbies : PlayersChange(ps)
    \/ Click
    \/ \E l \in LoopIds, fulfilled \in BOOLEAN : PlayerSettles(l, fulfilled)
    \/ \E l \in LoopIds : DelayElapsed(l)

SpecComponent == InitComponent /\ [][NextComponent]_vars

\* a started loop gets its answers and its timers fire (analyzePlayer settles
\* within its timeouts, the delay is a timer), and the component gets mounted
SpecComponentFair ==
    /\ SpecComponent
    /\ WF_vars(RunBlockOnCreate)
    /\ WF_vars(OnMount)
    /\ WF_vars(\E l \in LoopIds, fulfilled \in BOOLEAN : PlayerSettles(l, fulfilled))
    /\ WF_vars(\E l \in LoopIds : DelayElapsed(l))

(***************************************************************************)
(* Remote calls in flight during a lobby analysis (SpecLobby)              *)
(***************************************************************************)
\* the players for which a transport call is in flight
InFlight == {i \in Players : task[i].kind # "none"}

\* C31: at every moment of a lobby analysis at most one remote call is in
\* flight, also after a per-player timeout has fired and the analysis of the
\* next identity has begun.
C31_AtMostOneCallInFlight == Cardinality(InFlight) <= 1

(***************************************************************************)
(* Windows of the heuristics (SpecHeuristics)                              *)
(***************************************************************************)
\* what analyzePlayer (lines 702-703) computes from a history
boostedFlagsOf(matches) == detectBoostingIndicators(matches)

performanceFlagsOf(matches) == analyzePerformance(Slice(matches, 0, PerformanceWindow))

\* the first n matches of a history
FirstMatches(matches, n) == SubSeq(matches, 1, IF Len(matches) < n THEN Len(matches) ELSE n)

\* the two histories agree on their first n matches
AgreeOnFirst(h1, h2, n) == FirstMatches(h1, n) = FirstMatches(h2, n)

\* histories to compare the analysed one with: the histories of the same
\* length that vary at rows 6, 21 and past row 50, the analysed history cut
\* after 5, 10, 20 and 50 matches, and the analysed history itself
ComparedHistories ==
    {WindowHistory(Len(recentMatches), a, b, c) :
        a \in {"good", "feeder"}, b \in {"good", "feeder"}, c \in BOOLEAN}
    \cup {FirstMatches(recentMatches, n) : n \in {5, 10, 20, 50}}
    \cup {recentMatches}

\* C33: the windows of the heuristics do not depend on older matches: a
\* history that agrees with the analysed one on the first 5 matches gets the
\* same PerformanceFlags, one that agrees on the first 20 the same
\* inconsistentPlaystyle, one that agrees on the first 50 the same
\* suspiciousWinrateSpike, and the displayed match list is exactly the first
\* 10 matches of the analysed history.
C33_WindowsIgnoreOlderMatches ==
    apc = "done" =>
        /\ \A h \in ComparedHistories :
              /\ AgreeOnFirst(h, recentMatches, 5) =>
                    performanceFlagsOf(h) = performanceFlags
              /\ AgreeOnFirst(h, recentMatches, 20) =>
                    boostedFlagsOf(h).inconsistentPlaystyle
                        = boostedFlags.inconsistentPlaystyle
              /\ AgreeOnFirst(h, recentMatches, 50) =>
                    boostedFlagsOf(h).suspiciousWinrateSpike
                        = boostedFlags.suspiciousWinrateSpike
        /\ DisplayedMatches = FirstMatches(recentMatches, 10)

\* a history of more than 50 matches was analysed whose matches past the
\* 50th are lost, whose 6th is a feeding game and whose 21st is one as well:
\* each window has older matches that would change its flag if counted
C33_Witness ==
    /\ apc = "done"
    /\ Len(recentMatches) > 51
    /\ ~ recentMatches[51].win /\ ~ recentMatches[52].win
    /\ recentMatches[6].deaths = 12
    /\ recentMatches[21].deaths = 12
    /\ ~ performanceFlags.inconsistentCS
    /\ analyzePerformance(FirstMatches(recentMatches, 6)).inconsistentCS
    /\ WinRateDiffGt(calculateWinRate(FirstMatches(recentMatches, 20)),
                     calculateWinRate(Slice(recentMatches, 20, Len(recentMatches))), 30)
    /\ ~ boostedFlags.suspiciousWinrateSpike
    /\ Len(DisplayedMatches) = 10

(***************************************************************************)
(* The win-rate spike on short histories (SpecAnalyze)                     *)
(***************************************************************************)
\* the number of won matches of the analysed history
WinsOf(matches) == Cardinality({i \in DOMAIN matches : matches[i].win})

\* C34: with fewer than 21 matches the older window counts as 0% and the
\* spike check still runs: suspiciousWinrateSpike is true exactly when the
\* win rate over the available matches is strictly above 30%, and false when
\* there is no match at all.
C34_ShortHistorySpikeAboveThirty ==
    (apc = "done" /\ Len(recentMatches) < 21) =>
        /\ boostedFlags.suspiciousWinrateSpike
              <=> WinsOf(recentMatches) * 100 > 30 * Len(recentMatches)
        /\ recentMatches = <<>> => ~ boostedFlags.suspiciousWinrateSpike

\* a history of 20 matches with 7 wins (35%) was analysed and flagged
C34_Witness ==
    /\ apc = "done"
    /\ Len(recentMatches) = 20
    /\ WinsOf(recentMatches) = 7
    /\ boostedFlags.suspiciousWinrateSpike

(***************************************************************************)
(* The encodings of getMatchHistory (SpecStep)                             *)
(***************************************************************************)
\* the answer to attempt a parsed to a non-empty match sequence
ProducedMatch(a) == a.answer \in {"arrayMatches", "tableMatches"}

LastAttempt == attempts[Len(attempts)]

\* C35: getMatchHistory calls the game-history function with its four
\* encodings in fixed order and returns the matches of the first encoding
\* whose answer parses to a non-empty sequence, with no later call; an
\* encoding that errors or parses to no match is followed by the next one,
\* and the result is empty exactly when no encoding produced a match.
C35_FirstEncodingWithMatchesWins ==
    (sop = "history" /\ spc \in {"calling", "returned"}) =>
        /\ Len(attempts) <= NumFormats
        /\ \A k \in DOMAIN attempts : attempts[k].fmt = k
        /\ \A k \in 1..(Len(attempts) - 1) :
              attempts[k].answer # "pending" /\ ~ ProducedMatch(attempts[k])
        /\ spc = "calling" => LastAttempt.answer = "pending"
        /\ spc = "returned" =>
              /\ LastAttempt.answer # "pending"
              /\ ret \in {"matches", "empty"}
              /\ ret = "matches" <=> ProducedMatch(LastAttempt)
              /\ ret = "empty" <=> \A k \in DOMAIN attempts : ~ ProducedMatch(attempts[k])
              /\ ret = "empty" => Len(attempts) = NumFormats

\* getMatchHistory returned the matches of its third encoding after the
\* first one threw and the second one answered a table without the player
C35_Witness ==
    /\ sop = "history"
    /\ spc = "returned"
    /\ ret = "matches"
    /\ Len(attempts) = 3
    /\ attempts[1].answer = "error"
    /\ attempts[2].answer = "tableEmpty"
    /\ attempts[3].answer = "arrayMatches"

(***************************************************************************)
(* Failed transport calls and the cache (SpecRequest)                      *)
(***************************************************************************)
\* the transport call of makeRequest call i rejects in this step
Throws(i) == calls[i].pc = "inflight" /\ calls'[i].pc = "thrown"

\* every stored payload is the response of a transport invocation whose
\* call returned it
OnlyResponsesMemoized ==
    \A k \in Keys :
        cache[k].present =>
            /\ cache[k].data \in DOMAIN invocations
            /\ invocations[cache[k].data].key = k
            /\ calls[invocations[cache[k].data].call].pc = "returned"

\* j is the first call for the key of i that was issued after i had thrown,
\* and j is past its cache lookup
NextIdenticalAfterThrow(i, j) ==
    /\ i # j /\ SameKey(i, j)
    /\ calls[i].pc = "thrown"
    /\ i \in calls[j].doneAtStart
    /\ \A l \in CallIds \ {i, j} :
          (SameKey(i, l) /\ i \in calls[l].doneAtStart) => l > j
    /\ calls[j].pc \in {"inflight", "returned", "thrown"}

\* the failing call changes no cache entry and ends by throwing
ThrowLeavesCache == \A i \in CallIds : Throws(i) => cache' = cache

ServedByCallUnfinishedAt(i, j) ==
    /\ calls[j].pc = "returned"
    /\ calls[j].result \in DOMAIN invocations
    /\ LET l == invocations[calls[j].result].call
       IN  /\ l \notin {i, j}
           /\ SameKey(i, l)
           /\ calls[l].pc = "returned"
           /\ l \notin calls[i].doneAtStart

ActiveLoops == {l \in DOMAIN loops : loops[l].pc # "ended"}

\* C37: in a LobbyAnalysis component at most one analyzePlayers loop is
\* active at any time, whatever the interleaving of the mount-time trigger,
\* the reactive players-change trigger and the buttons; isRunning and
\* isLoading are both false again once the loop has ended, also when a
\* player analysis threw.
C37_OneLoopFlagsClearedAtEnd ==
    /\ Cardinality(ActiveLoops) <= 1
    /\ ActiveLoops = {} => ~ isRunning /\ ~ isLoading
    /\ ActiveLoops # {} => isRunning

\* a second loop has ended in a component that was clicked and given new
\* players; a player analysis of that loop threw
C37_Witness ==
    /\ cpc = "mounted"
    /\ Len(loops) = 2
    /\ ActiveLoops = {}
    /\ loops[2].rejected > 0
    /\ uiEvents = MaxUiEvents
    /\ ~ isRunning /\ ~ isLoading

\* the keys of the lobbies of the model
LobbyKeys == {lobbyKey(ps) : ps \in Lobbies \ {<<>>}}

\* the triggers that start an analysis without a click
Automatic == {"blockOnCreate", "blockOnChange", "blockOnClick", "blockAfterLoop", "mount"}

\* while a loop runs in an auto-analysing component the players prop holds a
\* lobby of key k that is not the last attempted one (the loop that runs is
\* over the last attempted one)
ChangedWhileRunning(k) ==
    /\ cpc = "mounted"
    /\ autoAnalyze
    /\ ActiveLoops # {}
    /\ Len(players) > 0
    /\ lobbyKey(players) = k
    /\ k # lastAttemptedKey

\* a loop over a lobby of key k, entered automatically, is running
AnalysedAutomatically(k) ==
    \E l \in ActiveLoops :
        /\ loops[l].by \in Automatic
        /\ lobbyKey(loops[l].lobby) = k

\* every loop entered automatically in this step is over a lobby whose key is
\* not the key last attempted before the step
NoAutomaticRepeat ==
    \A l \in DOMAIN loops' \ DOMAIN loops :
        loops'[l].by \in Automatic => lobbyKey(loops'[l].lobby) # lastAttemptedKey

\* C38 as stated: a different lobby that the players list changes to while
\* an analysis is running is eventually analysed automatically after the
\* running loop has ended, and a lobby whose key equals the last attempted
\* key is not automatically analysed again.
C38_NewLobbyEventuallyAnalysed ==
    /\ \A k \in LobbyKeys : ChangedWhileRunning(k) ~> AnalysedAutomatically(k)
    /\ [][NoAutomaticRepeat]_vars

\* C38 amended: the different lobby is eventually analysed automatically
\* unless the players list has changed again, to a lobby of another key or to
\* none, before the running loop ended; and a lobby whose key equals the last
\* attempted key is not automatically analysed again.
C38_NewLobbyEventuallyAnalysedUnlessReplaced ==
    /\ \A k \in LobbyKeys :
          ChangedWhileRunning(k) ~> (AnalysedAutomatically(k) \/ lobbyKey(players) # k)
    /\ [][NoAutomaticRepeat]_vars

\* the loop over the first lobby has ended and the reactive block, run after
\* it, has entered a loop over the other lobby the list had changed to
C38_Witness ==
    /\ Len(loops) = 2
    /\ loops[1].pc = "ended"
    /\ loops[2].by = "blockAfterLoop"
    /\ lobbyKey(loops[2].lobby) # lobbyKey(loops[1].lobby)
    /\ lobbyKey(loops[2].lobby) = lobbyKey(players)
    /\ lastAttemptedKey = lobbyKey(players)

(***************************************************************************)
(* The row the tabular summoner parser reports (SpecSummoner)              *)
(***************************************************************************)
\* row i of the table spells the requested identity, in whatever case
RowOfIdentity(table, i) ==
    /\ toLowerCase(table.rows[i].game_name) = toLowerCase(gameName)
    /\ toUpperCase(table.rows[i].tagline) = toUpperCase(gameTag)

\* C39: what the tabular summoner parser reports for the requested player
\* is taken from a row whose game_name and tagline equal the requested
\* identity case-insensitively; the stats of a row of another identity are
\* never reported under the requested player's name.
C39_StatsOnlyFromRowOfIdentity ==
    (apc = "found" /\ responses[1].kind = "summonerTable") =>
        \E i \in 1..Len(responses[1].rows) :
            /\ RowOfIdentity(responses[1], i)
            /\ playerStats =
                  parseTableSummonerResult([responses[1] EXCEPT !.rows = <<@[i]>>],
                                           gameName, gameTag, forcedRegion(callerRegion))

(***************************************************************************)
(* The Ivern auto-select monitors of the reveal view (reveal.svelte lines  *)
(* 287-289, 310-320, 380-407; lcu.ts lines 67-169). The view holds the     *)
(* switch ivernEnabled and the mode autoLock; startIvernAutoSelect starts  *)
(* an interval that keeps the mode it was started with.                    *)
(***************************************************************************)
\* lcu.ts lines 158-169: one more interval, of the given mode; its handle is
\* a local constant of the function and nothing clears it
startIvernAutoSelect(ms, mode) == Append(ms, mode)

\* lcu.ts lines 96-103 and 139-146: the PATCH a tick of an interval of the
\* given mode sends, with the switch and the mode of the view at that moment
Request(mode) == [completed |-> mode, enabled |-> ivernEnabled, autoLock |-> autoLock]

InitIvern ==
    /\ config \in [loaded : {FALSE}, autoSelectIvern : BOOLEAN, autoLockIvern : BOOLEAN]
    /\ ivernEnabled = FALSE
    /\ autoLock = TRUE
    /\ monitors = <<>>
    /\ resuming = 0
    /\ sent = {}
    /\ uiEvents = 0
    /\ cpc = "none"
    /\ players = <<>>
    /\ autoAnalyze = FALSE
    /\ isRunning = FALSE
    /\ isLoading = FALSE
    /\ lastAttemptedKey = NullKey
    /\ loops = <<>>
    /\ apc = "idle"
    /\ callerRegion = DefaultRegion
    /\ countParam = HistoryCount
    /\ responses = <<>>
    /\ playerStats = NoStats
    /\ recentMatches = <<>>
    /\ boostedFlags = NoBoostedFlags
    /\ performanceFlags = NoPerformanceFlags
    /\ riskScore = NoScore
    /\ RequestIdle
    /\ LobbyIdle
    /\ StepIdle

\* reveal.svelte lines 310-320: getConfig has answered
ViewMount ==
    /\ ~ config.loaded
    /\ config' = [config EXCEPT !.loaded = TRUE]
    /\ ivernEnabled' = (config.autoSelectIvern \/ FALSE)
    /\ autoLock' = (config.autoLockIvern \/ TRUE)
    /\ monitors' = IF ivernEnabled' THEN startIvernAutoSelect(monitors, autoLock')
                   ELSE monitors
    /\ UNCHANGED <<resuming, sent, uiEvents, componentVars>>
    /\ UNCHANGED NotUi

\* reveal.svelte lines 380-385: the switch is flipped and the configuration
\* is sent to be saved; before the configuration is loaded the assignment of
\* line 384 throws on the undefined config
ToggleIvernSelect ==
    /\ uiEvents < MaxUiEvents
    /\ uiEvents' = uiEvents + 1
    /\ ivernEnabled' = ~ ivernEnabled
    /\ IF config.loaded
       THEN /\ config' = [config EXCEPT !.autoSelectIvern = ivernEnabled']
            /\ resuming' = resuming + 1
       ELSE UNCHANGED <<config, resuming>>
    /\ UNCHANGED <<autoLock, monitors, sent, componentVars>>
    /\ UNCHANGED NotUi

\* reveal.svelte lines 395-400
ToggleAutoLock ==
    /\ uiEvents < MaxUiEvents
    /\ uiEvents' = uiEvents + 1
    /\ autoLock' = ~ autoLock
    /\ IF config.loaded
       THEN /\ config' = [config EXCEPT !.autoLockIvern = autoLock']
            /\ resuming' = resuming + 1
       ELSE UNCHANGED <<config, resuming>>
    /\ UNCHANGED <<ivernEnabled, monitors, sent, componentVars>>
    /\ UNCHANGED NotUi

\* reveal.svelte lines 387-392 and 402-406: updateConfig has settled and a
\* toggle handler resumes; both handlers go on in the same way, with the
\* switch and the mode of that moment; a rejected save ends the handler
ConfigSaved(saved) ==
    /\ resuming > 0
    /\ resuming' = resuming - 1
    /\ monitors' = IF saved /\ ivernEnabled
                   THEN startIvernAutoSelect(monitors, autoLock)
                   ELSE monitors
    /\ UNCHANGED <<config, ivernEnabled, autoLock, sent, uiEvents, componentVars>>
    /\ UNCHANGED NotUi

\* lcu.ts lines 160-168: the interval m fires; in champion select (and, to
\* lock in, with the pick of the local player in progress) it sends its PATCH
MonitorTick(m, inChampSelect) ==
    /\ m \in DOMAIN monitors
    /\ sent' = IF inChampSelect THEN sent \cup {Request(monitors[m])} ELSE sent
    /\ UNCHANGED <<config, ivernEnabled, autoLock, monitors, resuming, uiEvents,
                   componentVars>>
    /\ UNCHANGED NotUi

\* the intervals a view can have started: one when it is mounted, one more
\* with each toggle
MonitorIds == 1..(MaxUiEvents + 1)

NextIvern ==
    \/ ViewMount
    \/ ToggleIvernSelect
    \/ ToggleAutoLock
    \/ \E saved \in BOOLEAN : ConfigSaved(saved)
    \/ \E m \in MonitorIds, inChampSelect \in BOOLEAN : MonitorTick(m, inChampSelect)

SpecIvern == InitIvern /\ [][NextIvern]_vars

\* C40: at most one Ivern auto-select monitor is active at a time: no pick
\* or hover request is sent to the game client while auto-select is switched
\* off, and no lock-in request (completed: true) is sent while the lock mode
\* is hover-only.
C40_OneMonitorNothingAfterDisable ==
    /\ Len(monitors) <= 1
    /\ \A r \in sent : r.enabled
    /\ \A r \in sent : r.completed => r.autoLock

====
